---- MODULE Spec2Model ----
(***************************************************************************)
(* A model of packages/stats/scripts/fetch_kas.py: one batch run that      *)
(* fetches nine PxWeb tables in sequence, reshapes each data cube into     *)
(* flat records, writes one JSON file per table and a manifest.            *)
(*                                                                         *)
(* Conventions.  A Python string is a tuple of one-character strings, so   *)
(* that lower(), upper(), strip(), split() and `in` are computed.  An      *)
(* Optional value is a tuple of length at most one: <<>> is None and       *)
(* <<x>> is x.  A finite float is an integer number of tenths.  A JSON      *)
(* scalar is a record [s, t, n]: null, an integer, a float or a string.    *)
(***************************************************************************)
EXTENDS Integers, Sequences, FiniteSets, TLC

None == <<>>
Some(x) == <<x>>
IsNone(o) == o = <<>>
Val(o) == o[1]

Range(s) == {s[i] : i \in DOMAIN s}

\* ---- Python string primitives -------------------------------------------

UpperLetters ==
  <<"A","B","C","D","E","F","G","H","I","J","K","L","M",
    "N","O","P","Q","R","S","T","U","V","W","X","Y","Z">>

LowerLetters ==
  <<"a","b","c","d","e","f","g","h","i","j","k","l","m",
    "n","o","p","q","r","s","t","u","v","w","x","y","z">>

Digits == <<"0","1","2","3","4","5","6","7","8","9">>

\* str.lower()
Lower(s) ==
  [i \in DOMAIN s |->
     IF \E k \in DOMAIN UpperLetters : UpperLetters[k] = s[i]
     THEN LowerLetters[CHOOSE k \in DOMAIN UpperLetters : UpperLetters[k] = s[i]]
     ELSE s[i]]

\* str.upper()
Upper(s) ==
  [i \in DOMAIN s |->
     IF \E k \in DOMAIN LowerLetters : LowerLetters[k] = s[i]
     THEN UpperLetters[CHOOSE k \in DOMAIN LowerLetters : LowerLetters[k] = s[i]]
     ELSE s[i]]

\* sub in s
Contains(sub, s) ==
  \E i \in 0..(Len(s) - Len(sub)) : SubSeq(s, i + 1, i + Len(sub)) = sub

\* s.startswith(pre)
StartsWith(s, pre) == Len(pre) <= Len(s) /\ SubSeq(s, 1, Len(pre)) = pre

\* str.isspace() of one character; "nbsp" is U+00A0
IsSpace(c) == c \in {" ", "nbsp"}

\* str.strip()
Strip(s) ==
  LET keep == {i \in DOMAIN s : ~IsSpace(s[i])}
  IN IF keep = {} THEN <<>>
     ELSE SubSeq(s, CHOOSE i \in keep : \A k \in keep : i <= k,
                    CHOOSE i \in keep : \A k \in keep : k <= i)

\* str.split(sep) for a one-character separator: the pieces between separators
RECURSIVE Split(_, _)
Split(s, sep) ==
  IF \E i \in DOMAIN s : s[i] = sep
  THEN LET i == CHOOSE k \in DOMAIN s : s[k] = sep /\ \A m \in 1..(k - 1) : s[m] # sep
       IN <<SubSeq(s, 1, i - 1)>> \o Split(SubSeq(s, i + 1, Len(s)), sep)
  ELSE <<s>>

IsDigit(c) == \E k \in DOMAIN Digits : Digits[k] = c

DigitVal(c) == (CHOOSE k \in DOMAIN Digits : Digits[k] = c) - 1

\* str.isdigit()
IsDigitStr(s) == s # <<>> /\ \A i \in DOMAIN s : IsDigit(s[i])

\* str.zfill(width): zeros on the left, after a leading sign
RECURSIVE Zfill(_, _)
Zfill(s, width) ==
  IF Len(s) >= width THEN s
  ELSE IF s # <<>> /\ s[1] \in {"+", "-"}
       THEN Zfill(<<s[1], "0">> \o Tail(s), width)
       ELSE Zfill(<<"0">> \o s, width)

\* ---- JSON scalars and numbers --------------------------------------------

JNull == [s |-> <<>>, t |-> "null", n |-> 0]
JInt(n) == [s |-> <<>>, t |-> "int", n |-> n]
JFloat(tenths) == [s |-> <<>>, t |-> "float", n |-> tenths]
JStr(s) == [s |-> s, t |-> "str", n |-> 0]

RECURSIVE DigitsValue(_)
DigitsValue(s) ==
  IF s = <<>> THEN 0 ELSE 10 * DigitsValue(SubSeq(s, 1, Len(s) - 1)) + DigitVal(s[Len(s)])

\* the floats that are not finite: nan, and inf with its sign in n
JNaN == [s |-> <<>>, t |-> "nan", n |-> 0]
JInf(sign) == [s |-> <<>>, t |-> "inf", n |-> sign]

\* float(t) for a string without surrounding whitespace: [sign] followed by
\* nan, inf, infinity (in any case) or digits [. digit]; None stands for
\* ValueError.  Exponents, underscores and further fraction digits are outside
\* the model.
ParseNumeral(t) ==
  LET neg == t # <<>> /\ t[1] = "-"
      body == IF t # <<>> /\ t[1] \in {"+", "-"} THEN Tail(t) ELSE t
      dot == {i \in DOMAIN body : body[i] = "."}
      ip == IF dot = {} THEN body ELSE SubSeq(body, 1, (CHOOSE i \in dot : TRUE) - 1)
      fp == IF dot = {} THEN <<>> ELSE SubSeq(body, (CHOOSE i \in dot : TRUE) + 1, Len(body))
      ok == /\ Cardinality(dot) <= 1
            /\ \A i \in DOMAIN ip : IsDigit(ip[i])
            /\ \A i \in DOMAIN fp : IsDigit(fp[i])
            /\ Len(fp) <= 1
            /\ ip \o fp # <<>>
      mag == 10 * DigitsValue(ip) + DigitsValue(fp)
      low == Lower(body)
  IN IF low = <<"n","a","n">> THEN Some(JNaN)
     ELSE IF low \in {<<"i","n","f">>, <<"i","n","f","i","n","i","t","y">>}
     THEN Some(JInf(IF neg THEN -1 ELSE 1))
     ELSE IF ok THEN Some(JFloat(IF neg THEN 0 - mag ELSE mag))
     ELSE None

\* float(s): surrounding whitespace is ignored
ParseFloat(s) == ParseNumeral(Strip(s))

Placeholders == {<<".">>, <<".", ".">>, <<".", ".", ".">>, <<"-">>}

\* coerce_number: Optional[float]
coerce_number(value) ==
  IF value.t = "null" THEN None
  ELSE IF value.t = "int" THEN Some(JFloat(10 * value.n))
  ELSE IF value.t = "float" THEN Some(JFloat(value.n))
  ELSE LET s == Strip(value.s)
       IN IF s = <<>> \/ s \in Placeholders THEN None
          ELSE ParseFloat(SelectSeq(s, LAMBDA c : c # "," /\ c # "nbsp"))

\* tidy_number: an int when the float is integral, the float otherwise
tidy_number(value) ==
  IF IsNone(value) THEN JNull
  ELSE IF Val(value).t = "float" /\ Val(value).n % 10 = 0 THEN JInt(Val(value).n \div 10)
  ELSE Val(value)

\* a normalize_ym that does not pad the month
normalize_ym_no_zfill(code) ==
  IF IsDigitStr(code) /\ Len(code) = 6
  THEN SubSeq(code, 1, 4) \o <<"-">> \o SubSeq(code, 5, 6)
  ELSE IF \E i \in DOMAIN code : code[i] = "M"
  THEN LET parts == Split(code, "M")
       IN parts[1] \o <<"-">> \o SubSeq(code, Len(parts[1]) + 2, Len(code))
  ELSE code

\* normalize_ym: '2025M8' or '202508' -> '2025-08'
normalize_ym(code) ==
  IF IsDigitStr(code) /\ Len(code) = 6
  THEN SubSeq(code, 1, 4) \o <<"-">> \o SubSeq(code, 5, 6)
  ELSE IF \E i \in DOMAIN code : code[i] = "M"
  THEN LET parts == Split(code, "M")
           y == parts[1]
           m == SubSeq(code, Len(y) + 2, Len(code))
       IN y \o <<"-">> \o Zfill(m, 2)
  ELSE code

\* ---- API constants ---------------------------------------------------------

API_BASES == <<"https://askdata.rks-gov.net/PXWeb/api/v1", "https://askdata.rks-gov.net/api/v1">>

\* the nine tables in the order main fetches them
\* a main that fetches jet fuel before lng
TableOrder_jet_before_lng ==
  <<"trade_monthly", "energy_monthly", "fuel_gasoline", "fuel_diesel", "fuel_jet",
    "fuel_lng", "tourism_region", "tourism_country", "imports_by_partner">>

\* the order in which main calls the fetchers
TableOrder ==
  <<"trade_monthly", "energy_monthly", "fuel_gasoline", "fuel_diesel", "fuel_lng",
    "fuel_jet", "tourism_region", "tourism_country", "imports_by_partner">>

Tables == Range(TableOrder)

FUEL_SPECS == {"fuel_gasoline", "fuel_diesel", "fuel_lng", "fuel_jet"}

\* the output file of each table
OutName(t) ==
  CASE t = "trade_monthly" -> "kas_imports_monthly.json"
    [] t = "energy_monthly" -> "kas_energy_electricity_monthly.json"
    [] t = "fuel_gasoline" -> "kas_energy_gasoline_monthly.json"
    [] t = "fuel_diesel" -> "kas_energy_diesel_monthly.json"
    [] t = "fuel_lng" -> "kas_energy_lng_monthly.json"
    [] t = "fuel_jet" -> "kas_energy_jet_monthly.json"
    [] t = "tourism_region" -> "kas_tourism_region_monthly.json"
    [] t = "tourism_country" -> "kas_tourism_country_monthly.json"
    [] t = "imports_by_partner" -> "kas_imports_by_partner.json"

ManifestName == "kas_sources.json"

\* ---- PxWeb requests --------------------------------------------------------

\* A response body: fmt names what the server sent ("notjson" makes r.json()
\* raise); n is the number of cells a data response carries, -1 for as many as
\* the query asks for.
Body(fmt, n) == [n |-> n, fmt |-> fmt]
NoBody == Body("", -1)

\* An HTTP exchange: neterr when requests raises (no response), else a status
\* and a body.
Resp(status, body) == [body |-> body, status |-> status, neterr |-> FALSE]
NetErr == [body |-> NoBody, status |-> 0, neterr |-> TRUE]

\* r.ok
Ok(r) == r.status < 400

\* One px_get_meta / px_post_data call in progress: the next base to request,
\* last_err, the requests made so far, and how the call ended.
NewCall(kind, t) ==
  [kind |-> kind, table |-> t, base |-> 1, last_err |-> None, log |-> <<>>,
   sleeps |-> 0, outcome |-> "pending", ret |-> NoBody, err |-> None]

NoCall == NewCall("none", "none")

\* a px_get_meta that gives up at the first non-OK response
px_get_meta_one_base(c, r) ==
  LET log2 == Append(c.log, [base |-> c.base, neterr |-> r.neterr, status |-> r.status,
                             body |-> r.body, slept |-> FALSE])
      e == Some([verb |-> "GET", base |-> c.base, status |-> r.status])
  IN IF r.neterr \/ (Ok(r) /\ r.body.fmt = "notjson")
     THEN [c EXCEPT !.log = log2, !.outcome = "exception"]
     ELSE IF Ok(r)
     THEN [c EXCEPT !.log = log2, !.outcome = "return", !.ret = r.body]
     ELSE [c EXCEPT !.log = log2, !.last_err = e, !.base = c.base + 1,
                    !.outcome = "PxError", !.err = e]

\* px_get_meta, one pass of its loop over API_BASES on response r
px_get_meta(c, r) ==
  LET log2 == Append(c.log, [base |-> c.base, neterr |-> r.neterr, status |-> r.status,
                             body |-> r.body, slept |-> FALSE])
  IN IF r.neterr \/ (Ok(r) /\ r.body.fmt = "notjson")
     THEN [c EXCEPT !.log = log2, !.outcome = "exception"]
     ELSE IF Ok(r)
     THEN [c EXCEPT !.log = log2, !.outcome = "return", !.ret = r.body]
     ELSE LET e == Some([verb |-> "GET", base |-> c.base, status |-> r.status])
          IN IF c.base + 1 > Len(API_BASES)
             THEN [c EXCEPT !.log = log2, !.last_err = e, !.base = c.base + 1,
                            !.outcome = "PxError", !.err = e]
             ELSE [c EXCEPT !.log = log2, !.last_err = e, !.base = c.base + 1]

\* a px_post_data that sleeps after every non-OK response
px_post_data_nap_any(c, r) ==
  LET nap == ~r.neterr /\ ~Ok(r)
      log2 == Append(c.log, [base |-> c.base, neterr |-> r.neterr, status |-> r.status,
                             body |-> r.body, slept |-> nap])
  IN IF r.neterr \/ (Ok(r) /\ r.body.fmt = "notjson")
     THEN [c EXCEPT !.log = log2, !.outcome = "exception"]
     ELSE IF Ok(r)
     THEN [c EXCEPT !.log = log2, !.outcome = "return", !.ret = r.body]
     ELSE LET e == Some([verb |-> "POST", base |-> c.base, status |-> r.status])
              n == IF nap THEN c.sleeps + 1 ELSE c.sleeps
          IN IF c.base + 1 > Len(API_BASES)
             THEN [c EXCEPT !.log = log2, !.last_err = e, !.base = c.base + 1,
                            !.sleeps = n, !.outcome = "PxError", !.err = e]
             ELSE [c EXCEPT !.log = log2, !.last_err = e, !.base = c.base + 1,
                            !.sleeps = n]

\* px_post_data, one pass of its loop over API_BASES on response r
px_post_data(c, r) ==
  LET nap == ~r.neterr /\ ~Ok(r) /\ r.status = 429
      log2 == Append(c.log, [base |-> c.base, neterr |-> r.neterr, status |-> r.status,
                             body |-> r.body, slept |-> nap])
  IN IF r.neterr \/ (Ok(r) /\ r.body.fmt = "notjson")
     THEN [c EXCEPT !.log = log2, !.outcome = "exception"]
     ELSE IF Ok(r)
     THEN [c EXCEPT !.log = log2, !.outcome = "return", !.ret = r.body]
     ELSE LET e == Some([verb |-> "POST", base |-> c.base, status |-> r.status])
              n == IF nap THEN c.sleeps + 1 ELSE c.sleeps
          IN IF c.base + 1 > Len(API_BASES)
             THEN [c EXCEPT !.log = log2, !.last_err = e, !.base = c.base + 1,
                            !.sleeps = n, !.outcome = "PxError", !.err = e]
             ELSE [c EXCEPT !.log = log2, !.last_err = e, !.base = c.base + 1,
                            !.sleeps = n]

\* ---- meta utilities --------------------------------------------------------

\* A GET meta: [variables |-> sequence of [code, text, time, values, valueTexts]]

meta_variables(meta) == meta.variables

\* first variable satisfying the predicate on (text, code, var)
\* the variables of a meta, as the set a predicate is defined on
Variables(meta) == Range(meta_variables(meta))

\* the first variable for which predicate(text, code, v) holds; the predicate is
\* a function on the variables of the meta
meta_find_var(meta, predicate) ==
  LET vs == meta_variables(meta)
      hit == {i \in DOMAIN vs : predicate[vs[i]]}
  IN IF hit = {} THEN None ELSE Some(vs[CHOOSE i \in hit : \A k \in hit : i <= k])

meta_find_var_code(meta, predicate) ==
  LET v == meta_find_var(meta, predicate) IN IF IsNone(v) THEN None ELSE Some(Val(v).code)

\* x or default, for an Optional string x
OrElse(o, d) == IF IsNone(o) \/ Val(o) = <<>> THEN d ELSE Val(o)

VarByCode(meta, code) ==
  LET vs == meta_variables(meta)
      hit == {i \in DOMAIN vs : vs[i].code = code}
  IN IF hit = {} THEN None ELSE Some(vs[CHOOSE i \in hit : \A k \in hit : i <= k])

\* list of <<value_code, value_text>> of the variable
meta_value_map(meta, var_code) ==
  LET v == VarByCode(meta, var_code)
  IN IF IsNone(v) THEN <<>>
     ELSE LET values == Val(v).values
              texts == IF Val(v).valueTexts = <<>> \/ Len(Val(v).valueTexts) # Len(values)
                       THEN values ELSE Val(v).valueTexts
          IN [i \in DOMAIN values |-> <<values[i], texts[i]>>]

Reversed(s) == [i \in DOMAIN s |-> s[Len(s) + 1 - i]]

\* time codes, reversed when the variable is flagged time
meta_time_codes(meta, time_code) ==
  LET v == VarByCode(meta, time_code)
  IN IF IsNone(v) THEN <<>>
     ELSE IF Val(v).time THEN Reversed(Val(v).values) ELSE Val(v).values

\* the predicate every fetcher uses to find the time dimension
IsTimeVar(meta) ==
  [v \in Variables(meta) |->
     \/ v.time
     \/ Contains(<<"y","e","a","r">>, Lower(v.text)) /\ Contains(<<"m","o","n","t","h">>, Lower(v.text))]

s_Viti_muaji == <<"V","i","t","i","/","m","u","a","j","i">>
s_Variabla == <<"V","a","r","i","a","b","l","a">>

\* ---- data tables -----------------------------------------------------------

\* A cube: a JSON-stat part (has_value, value, has_dimension, id, size, index)
\* and a table part (columns, data).  A data row is [key, has, values, value]
\* with has "values", "value" or "none" for the member the row carries.

RowValue(row) ==
  IF row.has = "values"
  THEN (IF row.values = <<>> THEN JNull ELSE row.values[1])
  ELSE IF row.has = "value" THEN row.value
  ELSE JNull

\* table_lookup: None, or [dim_codes, keys, get] with get the lookup dict
table_lookup(cube, dim_order) ==
  IF cube.data = <<>> THEN None
  ELSE IF cube.columns = <<>> /\ dim_order = <<>> THEN None
  ELSE LET dim_codes == IF cube.columns # <<>>
                        THEN LET dc == SelectSeq(cube.columns, LAMBDA col : col.type # "c")
                             IN [i \in DOMAIN dc |-> dc[i].code]
                        ELSE dim_order
           rows == {i \in DOMAIN cube.data : Len(cube.data[i].key) = Len(dim_codes)}
           keys == {cube.data[i].key : i \in rows}
           last(k) == CHOOSE i \in rows : cube.data[i].key = k
                         /\ \A m \in rows : cube.data[m].key = k => m <= i
       IN Some([dim_codes |-> dim_codes, keys |-> keys,
                get |-> [k \in keys |-> coerce_number(RowValue(cube.data[last(k)]))]])

\* key[dim_codes.index(dim)] = value for each assignment in turn; None for an
\* unknown dimension
RECURSIVE FillKey(_, _, _)
FillKey(key, dim_codes, assignments) ==
  IF assignments = <<>> THEN Some(key)
  ELSE LET a == Head(assignments)
           hit == {i \in DOMAIN dim_codes : dim_codes[i] = a[1]}
       IN IF hit = {} THEN None
          ELSE FillKey([key EXCEPT ![CHOOSE i \in hit : \A k \in hit : i <= k] = Some(a[2])],
                       dim_codes, Tail(assignments))

\* lookup_table_value; assignments is a sequence of <<dim_code, dim_value>>
lookup_table_value(dim_codes, table, assignments) ==
  LET filled == FillKey([i \in DOMAIN dim_codes |-> None], dim_codes, assignments)
  IN IF IsNone(filled) THEN None
     ELSE IF \E i \in DOMAIN dim_codes : IsNone(Val(filled)[i]) THEN None
     ELSE LET key == [i \in DOMAIN dim_codes |-> Val(Val(filled)[i])]
          IN IF key \in table.keys THEN table.get[key] ELSE None

\* ---- command line (main, argument handling) --------------------------------

DefaultMonths == 24

\* a months in which --months wins over --all
MonthsOf_months_first(a) ==
  IF ~IsNone(a.months) /\ Val(a.months) # 0 THEN a.months
  ELSE IF a.all THEN None
  ELSE Some(DefaultMonths)

\* months = None if args.all else (args.months or 24)
MonthsOf(a) ==
  IF a.all THEN None
  ELSE IF IsNone(a.months) \/ Val(a.months) = 0 THEN Some(DefaultMonths)
  ELSE a.months

\* a partners in which --partners wins over --no-partners
PartnersOf_list_first(a) ==
  IF ~IsNone(a.partners) /\ Val(a.partners) # <<>>
  THEN Some(SelectSeq(Split(Val(a.partners), ","), LAMBDA p : Strip(p) # <<>>))
  ELSE IF a.no_partners THEN None
  ELSE Some(<<<<"A","L","L">>>>)

\* the partners list main hands to fetch_imports_by_partner
PartnersOf(a) ==
  IF a.no_partners THEN None
  ELSE IF ~IsNone(a.partners) /\ Val(a.partners) # <<>>
  THEN Some(SelectSeq(Split(Val(a.partners), ","), LAMBDA p : Strip(p) # <<>>))
  ELSE Some(<<<<"A","L","L">>>>)

\* seq[start:] with Python's treatment of a negative or oversized start
SliceFrom(seq, start) ==
  LET from == IF start < 0
              THEN (IF Len(seq) + start < 0 THEN 0 ELSE Len(seq) + start)
              ELSE (IF start > Len(seq) THEN Len(seq) ELSE start)
  IN SubSeq(seq, from + 1, Len(seq))

\* a pick that takes the first codes: all_months[:months]
Pick_first(all_months, months) ==
  IF ~IsNone(months) /\ Val(months) # 0
  THEN SubSeq(all_months, 1, Len(all_months) - Len(SliceFrom(all_months, Val(months))))
  ELSE all_months

\* pick = all_months[-months:] if months else all_months
Pick(all_months, months) ==
  IF ~IsNone(months) /\ Val(months) # 0
  THEN SliceFrom(all_months, 0 - Val(months))
  ELSE all_months

\* ---- fetchers ----------------------------------------------------------------
\* Each fetcher is two operators.  <Name>Plan(meta, ...) is the code between
\* px_get_meta and px_post_data: err is None, or the error it raises; skipped
\* tells that it returned without a request.  <Name>Result(plan, cube) is the
\* code after px_post_data: err, the rows written and the info returned.

Item(code, values) == [code |-> code, values |-> values]

Texts(pairs) == {pairs[i][2] : i \in DOMAIN pairs}

\* the code of the first pair whose text matches; match is a function on the texts
FirstCode(pairs, match) ==
  LET hit == {i \in DOMAIN pairs : match[pairs[i][2]]}
  IN IF hit = {} THEN None ELSE Some(pairs[CHOOSE i \in hit : \A k \in hit : i <= k][1])

\* `not code` for an Optional string
Falsy(o) == IsNone(o) \/ Val(o) = <<>>

\* fetch_trade_monthly up to the request
TradePlan(meta, months) ==
  LET dim_time == OrElse(meta_find_var_code(meta, IsTimeVar(meta)), s_Viti_muaji)
      dim_var == OrElse(meta_find_var_code(meta,
                   [v \in Variables(meta) |-> LET text == v.text  code == v.code IN
                     \/ Contains(<<"v","a","r","i","a","b","l","e">>, Lower(text))
                     \/ Lower(code) \in {<<"v","a","r","i","a","b","l","a">>,
                                         <<"v","a","r","i","a","b","l","e","s">>}]),
                 s_Variabla)
      val_pairs == meta_value_map(meta, dim_var)
      c1 == FirstCode(val_pairs, [text \in Texts(val_pairs) |->
                /\ Contains(<<"i","m","p","o","r","t","s">>, Lower(text))
                /\ Contains(<<"c","i","f">>, Lower(text))])
      c2 == IF Falsy(c1)
            THEN FirstCode(val_pairs, [text \in Texts(val_pairs) |-> Contains(<<"i","m","p","o","r","t">>, Lower(text))])
            ELSE c1
      imp_code == IF Falsy(c2) THEN <<"3">> ELSE Val(c2)
      pick == Pick(meta_time_codes(meta, dim_time), months)
  IN [err |-> None, skipped |-> FALSE, dim_b |-> <<>>, pairs_b |-> <<>>, dim_var |-> <<>>,
      metrics |-> <<>>, dim_time |-> dim_time, dim_a |-> dim_var,
      codes_a |-> <<imp_code>>, pairs_a |-> val_pairs, pick |-> pick,
      query |-> <<Item(dim_var, <<imp_code>>), Item(dim_time, pick)>>]

\* a series with one record per value returned instead of one per selected code
TradeSeries_per_value(plan, data) ==
  LET values == IF data.has_value THEN data.value ELSE <<>>
      table == table_lookup(data, <<plan.dim_time, plan.dim_a>>)
      coerced == IF values # <<>>
                 THEN [i \in DOMAIN values |-> coerce_number(values[i])]
                 ELSE IF ~IsNone(table)
                 THEN [i \in DOMAIN plan.pick |->
                         lookup_table_value(Val(table).dim_codes, Val(table),
                           <<<<plan.dim_time, plan.pick[i]>>, <<plan.dim_a, plan.codes_a[1]>>>>)]
                 ELSE <<>>
      n == IF Len(coerced) < Len(plan.pick) THEN Len(coerced) ELSE Len(plan.pick)
  IN [i \in 1..n |->
        [period |-> normalize_ym(plan.pick[i]), imports_th_eur |-> tidy_number(coerced[i])]]

\* fetch_trade_monthly after the request: the series written
TradeSeries(plan, data) ==
  LET values == IF data.has_value THEN data.value ELSE <<>>
      table == table_lookup(data, <<plan.dim_time, plan.dim_a>>)
      coerced == IF values # <<>>
                 THEN [i \in DOMAIN values |-> coerce_number(values[i])]
                 ELSE IF ~IsNone(table)
                 THEN [i \in DOMAIN plan.pick |->
                         lookup_table_value(Val(table).dim_codes, Val(table),
                           <<<<plan.dim_time, plan.pick[i]>>, <<plan.dim_a, plan.codes_a[1]>>>>)]
                 ELSE <<>>
  IN [i \in DOMAIN plan.pick |->
        [period |-> normalize_ym(plan.pick[i]),
         imports_th_eur |-> tidy_number(IF i <= Len(coerced) THEN coerced[i] ELSE None)]]

TradeResult(plan, data) ==
  LET series == TradeSeries(plan, data)
  IN [err |-> None, rows |-> series, info |-> [periods |-> Len(series)]]

\* strides left as they are initialised
Strides_all_one(sizes) == [i \in DOMAIN sizes |-> 1]

\* strides[i] = strides[i + 1] * sizes[i + 1], 1 for the last dimension
RECURSIVE Strides(_)
Strides(sizes) ==
  IF Len(sizes) <= 1 THEN [i \in DOMAIN sizes |-> 1]
  ELSE LET rest == Strides(Tail(sizes)) IN <<rest[1] * sizes[2]>> \o rest

\* pos(coords) = sum(c * s for c, s in zip(coords, strides))
RECURSIVE Pos(_, _)
Pos(coords, strides) ==
  IF coords = <<>> \/ strides = <<>> THEN 0
  ELSE Head(coords) * Head(strides) + Pos(Tail(coords), Tail(strides))

\* the JSON-stat branch is taken when the cube has both members
IsJsonStat(cube) == cube.has_value /\ cube.has_dimension

\* coordinates of one cell: the ordinal of code_a on dim_a, of the period on
\* dim_time, 0 elsewhere
Coords(cube, dim_a, ord_a, dim_time, ord_t) ==
  [k \in DOMAIN cube.id |->
     IF cube.id[k] = dim_a THEN ord_a ELSE IF cube.id[k] = dim_time THEN ord_t ELSE 0]

\* every index the JSON-stat branch reads exists (else KeyError / IndexError)
StatReadable(cube, dim_a, codes_a, dim_time, pick) ==
  /\ dim_time \in DOMAIN cube.index
  /\ dim_a \in DOMAIN cube.index
  /\ \A i \in DOMAIN codes_a : codes_a[i] \in DOMAIN cube.index[dim_a]
  /\ \A i \in DOMAIN pick : pick[i] \in DOMAIN cube.index[dim_time]
  /\ \A i \in DOMAIN codes_a : \A k \in DOMAIN pick :
       Pos(Coords(cube, dim_a, cube.index[dim_a][codes_a[i]],
                  dim_time, cube.index[dim_time][pick[k]]),
           Strides(cube.size)) < Len(cube.value)

StatCell(cube, dim_a, code_a, dim_time, code_t) ==
  coerce_number(cube.value[1 + Pos(Coords(cube, dim_a, cube.index[dim_a][code_a],
                                          dim_time, cube.index[dim_time][code_t]),
                                   Strides(cube.size))])

\* fetch_energy_monthly up to the request
EnergyPlan(meta, months) ==
  LET dim_time == OrElse(meta_find_var_code(meta, IsTimeVar(meta)), s_Viti_muaji)
      dim_ind == OrElse(meta_find_var_code(meta,
                   [v \in Variables(meta) |-> LET text == v.text  code == v.code IN
                     \/ Contains(<<"m","w","h">>, Lower(text))
                     \/ Contains(<<"i","n","d","i","c","a","t","o","r">>, Lower(text))
                     \/ Lower(code) = <<"m","w","h">>]),
                 <<"M","W","H">>)
      val_pairs == meta_value_map(meta, dim_ind)
      import_code == FirstCode(val_pairs, [text \in Texts(val_pairs) |-> Contains(<<"i","m","p","o","r","t">>, Lower(text))])
      gp == <<"g","r","o","s","s"," ","p","r","o","d","u","c","t","i","o","n">>
      p1 == FirstCode(val_pairs, [text \in Texts(val_pairs) |->
               \/ Contains(gp \o <<" ","f","r","o","m"," ","p","o","w","e","r"," ","p","l","a","n","t","s">>,
                           Lower(text))
               \/ StartsWith(Lower(text), gp)])
      prod_code == IF Falsy(p1)
                   THEN FirstCode(val_pairs, [text \in Texts(val_pairs) |->
                          /\ Contains(<<"g","r","o","s","s">>, Lower(text))
                          /\ Contains(<<"p","r","o","d","u","c","t","i","o","n">>, Lower(text))])
                   ELSE p1
      pick == Pick(meta_time_codes(meta, dim_time), months)
  IN IF Falsy(import_code) \/ Falsy(prod_code)
     THEN [err |-> Some("PxError"), skipped |-> FALSE, dim_b |-> <<>>, pairs_b |-> <<>>, dim_var |-> <<>>,
      metrics |-> <<>>, dim_time |-> dim_time, dim_a |-> dim_ind,
           codes_a |-> <<>>, pairs_a |-> val_pairs, pick |-> pick, query |-> <<>>]
     ELSE [err |-> None, skipped |-> FALSE, dim_b |-> <<>>, pairs_b |-> <<>>, dim_var |-> <<>>,
      metrics |-> <<>>, dim_time |-> dim_time, dim_a |-> dim_ind,
           codes_a |-> <<Val(import_code), Val(prod_code)>>, pairs_a |-> val_pairs, pick |-> pick,
           query |-> <<Item(dim_ind, <<Val(import_code), Val(prod_code)>>), Item(dim_time, pick)>>]

\* fetch_energy_monthly after the request
EnergyResult(plan, cube) ==
  LET table == table_lookup(cube, <<plan.dim_a, plan.dim_time>>)
      cell(code_a, code_t) ==
        IF IsJsonStat(cube)
        THEN StatCell(cube, plan.dim_a, code_a, plan.dim_time, code_t)
        ELSE lookup_table_value(Val(table).dim_codes, Val(table),
               <<<<plan.dim_time, code_t>>, <<plan.dim_a, code_a>>>>)
      series == [i \in DOMAIN plan.pick |->
                   [period |-> normalize_ym(plan.pick[i]),
                    import_gwh |-> tidy_number(cell(plan.codes_a[1], plan.pick[i])),
                    production_gwh |-> tidy_number(cell(plan.codes_a[2], plan.pick[i]))]]
  IN IF IsJsonStat(cube) /\ ~StatReadable(cube, plan.dim_a, plan.codes_a, plan.dim_time, plan.pick)
     THEN [err |-> Some("Exception"), rows |-> <<>>, info |-> [periods |-> 0]]
     ELSE IF ~IsJsonStat(cube) /\ IsNone(table)
     THEN [err |-> Some("PxError"), rows |-> <<>>, info |-> [periods |-> 0]]
     ELSE [err |-> None, rows |-> series, info |-> [periods |-> Len(series)]]

\* a selection that matches the partner codes only, never the labels
PartnerSelect_codes_only(partners, partner_pairs) ==
  LET all_codes == [i \in DOMAIN partner_pairs |-> partner_pairs[i][1]]
      wanted == {Upper(Strip(partners[i])) : i \in DOMAIN partners}
      match == SelectSeq(partner_pairs, LAMBDA pr : Upper(pr[1]) \in wanted)
      codes == [i \in DOMAIN match |-> match[i][1]]
  IN IF Len(partners) = 1 /\ Upper(partners[1]) = <<"A","L","L">>
     THEN [skipped |-> FALSE, codes |-> all_codes, labelled |-> partner_pairs]
     ELSE IF codes = <<>>
     THEN [skipped |-> TRUE, codes |-> <<>>, labelled |-> <<>>]
     ELSE [skipped |-> FALSE, codes |-> codes, labelled |-> match]

\* fetch_imports_by_partner, the partner code selection: skipped, or the codes
\* requested and the label of each
PartnerSelect(partners, partner_pairs) ==
  LET all_codes == [i \in DOMAIN partner_pairs |-> partner_pairs[i][1]]
      wanted == {Upper(Strip(partners[i])) : i \in DOMAIN partners}
      match == SelectSeq(partner_pairs,
                 LAMBDA pr : Upper(pr[1]) \in wanted \/ Upper(pr[2]) \in wanted)
      codes == [i \in DOMAIN match |-> match[i][1]]
  IN IF Len(partners) = 1 /\ Upper(partners[1]) = <<"A","L","L">>
     THEN [skipped |-> FALSE, codes |-> all_codes, labelled |-> partner_pairs]
     ELSE IF codes = <<>>
     THEN [skipped |-> TRUE, codes |-> <<>>, labelled |-> <<>>]
     ELSE [skipped |-> FALSE, codes |-> codes, labelled |-> match]

\* label_lookup.get(p_code, p_code)
LabelOf(labelled, p_code) ==
  LET hit == {i \in DOMAIN labelled : labelled[i][1] = p_code}
  IN IF hit = {} THEN p_code ELSE labelled[CHOOSE i \in hit : \A k \in hit : k <= i][2]

\* fetch_imports_by_partner up to the request (partners is not None)
PartnerPlan(meta, months, partners) ==
  LET dim_time == OrElse(meta_find_var_code(meta, IsTimeVar(meta)), s_Viti_muaji)
      dim_partner == OrElse(meta_find_var_code(meta,
                       [v \in Variables(meta) |-> LET text == v.text  code == v.code IN
                         \/ Contains(<<"p","a","r","t","n","e","r">>, Lower(text))
                         \/ Contains(<<"p","a","r","t","n","e","r","c">>, Lower(code))]),
                     <<"P","a","r","t","n","e","r","C">>)
      dim_unit == meta_find_var_code(meta,
                    [v \in Variables(meta) |-> LET text == v.text  code == v.code IN Contains(<<"u","n","i","t">>, Lower(text))])
      pick == Pick(meta_time_codes(meta, dim_time), months)
      sel == PartnerSelect(partners, meta_value_map(meta, dim_partner))
      thou == IF Falsy(dim_unit) THEN None
              ELSE FirstCode(meta_value_map(meta, Val(dim_unit)),
                     [text \in Texts(meta_value_map(meta, Val(dim_unit))) |-> \/ Contains(<<"0","0","0">>, text)
                                   \/ Contains(<<"t","h","o","u","s","a","n","d">>, Lower(text))])
      unit_item == IF Falsy(thou) THEN <<>> ELSE <<Item(Val(dim_unit), <<Val(thou)>>)>>
  IN [err |-> None, skipped |-> sel.skipped, dim_b |-> <<>>, pairs_b |-> <<>>, dim_var |-> <<>>,
      metrics |-> <<>>, dim_time |-> dim_time, dim_a |-> dim_partner,
      codes_a |-> sel.codes, pairs_a |-> sel.labelled, pick |-> pick,
      query |-> <<Item(dim_partner, sel.codes), Item(dim_time, pick)>> \o unit_item]

\* rows in partner-major order: one per partner code and period
PartnerRows(plan, cell) ==
  LET n == Len(plan.pick)
  IN [r \in 1..(Len(plan.codes_a) * n) |->
        LET p_code == plan.codes_a[((r - 1) \div n) + 1]
            code == plan.pick[((r - 1) % n) + 1]
        IN [period |-> normalize_ym(code),
            partner |-> LabelOf(plan.pairs_a, p_code),
            imports_th_eur |-> tidy_number(cell[p_code, code])]]

\* fetch_imports_by_partner after the request
PartnerResult(plan, cube) ==
  LET table == table_lookup(cube, <<plan.dim_a, plan.dim_time>>)
      cell == [code_a \in Range(plan.codes_a), code_t \in Range(plan.pick) |->
                 IF IsJsonStat(cube)
                 THEN StatCell(cube, plan.dim_a, code_a, plan.dim_time, code_t)
                 ELSE lookup_table_value(Val(table).dim_codes, Val(table),
                        <<<<plan.dim_time, code_t>>, <<plan.dim_a, code_a>>>>)]
      info == [partners |-> Len(plan.codes_a), periods |-> Len(plan.pick)]
      read == IF plan.codes_a = <<>> THEN <<>> ELSE plan.pick
  IN IF IsJsonStat(cube) /\ ~StatReadable(cube, plan.dim_a, plan.codes_a, plan.dim_time, read)
     THEN [err |-> Some("Exception"), rows |-> <<>>, info |-> info]
     ELSE IF ~IsJsonStat(cube) /\ IsNone(table)
     THEN [err |-> Some("PxError"), rows |-> <<>>, info |-> info]
     ELSE [err |-> None, rows |-> PartnerRows(plan, cell), info |-> info]

\* a dict as the sequence of its <<key, value>> items in insertion order
DictSet(d, k, v) ==
  IF \E i \in DOMAIN d : d[i][1] = k
  THEN [i \in DOMAIN d |-> IF d[i][1] = k THEN <<k, v>> ELSE d[i]]
  ELSE Append(d, <<k, v>>)

DictKeys(d) == [i \in DOMAIN d |-> d[i][1]]

DictGet(d, k) == d[CHOOSE i \in DOMAIN d : d[i][1] = k][2]

RECURSIVE DictFrom(_)
DictFrom(items) ==
  IF items = <<>> THEN <<>>
  ELSE DictSet(DictFrom(SubSeq(items, 1, Len(items) - 1)),
               items[Len(items)][1], items[Len(items)][2])

IsAlnum(c) ==
  \/ IsDigit(c)
  \/ \E k \in DOMAIN LowerLetters : LowerLetters[k] = c \/ UpperLetters[k] = c

\* re.sub(r"[^0-9a-zA-Z]+", "_", s): each run of other characters becomes one "_"
RECURSIVE SubRuns(_)
SubRuns(s) ==
  IF s = <<>> THEN <<>>
  ELSE IF IsAlnum(Head(s)) THEN <<Head(s)>> \o SubRuns(Tail(s))
  ELSE IF Len(s) > 1 /\ ~IsAlnum(s[2]) THEN SubRuns(Tail(s))
  ELSE <<"_">> \o SubRuns(Tail(s))

\* str.strip("_")
StripUnderscore(s) ==
  LET keep == {i \in DOMAIN s : s[i] # "_"}
  IN IF keep = {} THEN <<>>
     ELSE SubSeq(s, CHOOSE i \in keep : \A k \in keep : i <= k,
                    CHOOSE i \in keep : \A k \in keep : k <= i)

slugify_label(text) ==
  LET slug == StripUnderscore(SubRuns(Lower(Strip(text))))
  IN IF slug = <<>> THEN <<"v","a","l","u","e">> ELSE slug

\* a normalize_fuel_field that only slugifies the label
normalize_fuel_field_slug(label) == slugify_label(label)

normalize_fuel_field(label) ==
  LET l == Lower(label)
  IN IF Contains(<<"r","e","a","d","y">>, l) /\ Contains(<<"m","a","r","k","e","t">>, l)
     THEN <<"r","e","a","d","y","_","f","o","r","_","m","a","r","k","e","t">>
     ELSE IF Contains(<<"p","r","o","d","u","c","t","i","o","n">>, l)
     THEN <<"p","r","o","d","u","c","t","i","o","n">>
     ELSE IF Contains(<<"i","m","p","o","r","t">>, l) THEN <<"i","m","p","o","r","t">>
     ELSE IF Contains(<<"e","x","p","o","r","t">>, l) THEN <<"e","x","p","o","r","t">>
     ELSE IF Contains(<<"s","t","o","c","k">>, l) THEN <<"s","t","o","c","k">>
     ELSE slugify_label(label)

normalize_tourism_metric(label) ==
  IF Contains(<<"n","i","g","h","t">>, Lower(label))
  THEN <<"n","i","g","h","t","s">> ELSE <<"v","i","s","i","t","o","r","s">>

normalize_group_label(label) ==
  LET l == Lower(label)
  IN IF StartsWith(l, <<"t","o","t">>) THEN <<"t","o","t","a","l">>
     ELSE IF StartsWith(l, <<"l","o","c">>) THEN <<"l","o","c","a","l">>
     ELSE IF StartsWith(l, <<"e","x","t">>) THEN <<"e","x","t","e","r","n","a","l">>
     ELSE slugify_label(label)

Codes(pairs) == [i \in DOMAIN pairs |-> pairs[i][1]]

k_period == <<"p","e","r","i","o","d">>

\* fetch_fuel_table up to the request
FuelPlan(meta, months) ==
  LET dim_time == OrElse(meta_find_var_code(meta, IsTimeVar(meta)), s_Viti_muaji)
      measure_dim == meta_find_var_code(meta, [v \in Variables(meta) |-> LET text == v.text  code == v.code IN code # dim_time])
      measure_pairs == IF Falsy(measure_dim) THEN <<>> ELSE meta_value_map(meta, Val(measure_dim))
      pick == Pick(meta_time_codes(meta, dim_time), months)
  IN IF Falsy(measure_dim)
     THEN [err |-> Some("PxError"), skipped |-> FALSE, dim_b |-> <<>>, pairs_b |-> <<>>,
           dim_var |-> <<>>, metrics |-> <<>>, dim_time |-> dim_time, dim_a |-> <<>>,
           codes_a |-> <<>>, pairs_a |-> <<>>, pick |-> pick, query |-> <<>>]
     ELSE [err |-> None, skipped |-> FALSE, dim_b |-> <<>>, pairs_b |-> <<>>,
           dim_var |-> <<>>, metrics |-> <<>>, dim_time |-> dim_time, dim_a |-> Val(measure_dim),
           codes_a |-> Codes(measure_pairs), pairs_a |-> measure_pairs, pick |-> pick,
           query |-> <<Item(Val(measure_dim), Codes(measure_pairs)), Item(dim_time, pick)>>]

\* one row of a fuel file: period, then a field per measure code
RECURSIVE FuelRow(_, _, _, _)
FuelRow(plan, table, code, n) ==
  IF n = 0 THEN <<<<k_period, JStr(normalize_ym(code))>>>>
  ELSE DictSet(FuelRow(plan, table, code, n - 1),
               normalize_fuel_field(plan.pairs_a[n][2]),
               tidy_number(lookup_table_value(table.dim_codes, table,
                 <<<<plan.dim_a, plan.pairs_a[n][1]>>, <<plan.dim_time, code>>>>)))

\* fetch_fuel_table after the request
FuelResult(plan, cube) ==
  LET table == table_lookup(cube, <<plan.dim_a, plan.dim_time>>)
      series == [i \in DOMAIN plan.pick |->
                   FuelRow(plan, Val(table), plan.pick[i], Len(plan.pairs_a))]
      metrics == [i \in DOMAIN plan.pairs_a |->
                    [field |-> normalize_fuel_field(plan.pairs_a[i][2]),
                     label |-> plan.pairs_a[i][2]]]
  IN IF IsNone(table)
     THEN [err |-> Some("PxError"), rows |-> <<>>, info |-> [periods |-> 0, metrics |-> <<>>]]
     ELSE [err |-> None, rows |-> series, info |-> [periods |-> Len(series), metrics |-> metrics]]

\* metric_codes[normalize_tourism_metric(text)] = code, for each value of the variable
MetricCodes(var_pairs) ==
  DictFrom([i \in DOMAIN var_pairs |-> <<normalize_tourism_metric(var_pairs[i][2]), var_pairs[i][1]>>])

DictValues(d) == [i \in DOMAIN d |-> d[i][2]]

\* the predicate the tourism fetchers use to find the metric dimension
HasVariable(meta) ==
  [v \in Variables(meta) |-> Contains(<<"v","a","r","i","a","b","l","e">>, Lower(v.text))]

\* fetch_tourism_region up to the request
TourismRegionPlan(meta, months) ==
  LET dim_time == OrElse(meta_find_var_code(meta, IsTimeVar(meta)), s_Viti_muaji)
      dim_region == OrElse(meta_find_var_code(meta,
                      [v \in Variables(meta) |-> LET text == v.text  code == v.code IN \/ Contains(<<"r","e","g","i","o","n">>, Lower(text))
                                             \/ Contains(<<"r","a","j","o","n">>, Lower(text))]),
                    <<"R","a","j","o","n","e","t">>)
      dim_origin == OrElse(meta_find_var_code(meta,
                      [v \in Variables(meta) |-> LET text == v.text  code == v.code IN \/ Contains(<<"l","o","c","a","l">>, Lower(text))
                                             \/ Contains(<<"j","a","s","h","t">>, Lower(text))]),
                    <<"V","e","n","d","o","r","/","j","a","s","h","t","e","m">>)
      dim_var == OrElse(meta_find_var_code(meta, HasVariable(meta)), s_Variabla)
      region_pairs == meta_value_map(meta, dim_region)
      origin_pairs == meta_value_map(meta, dim_origin)
      metric_codes == MetricCodes(meta_value_map(meta, dim_var))
      pick == Pick(meta_time_codes(meta, dim_time), months)
  IN [err |-> None, skipped |-> FALSE, dim_b |-> dim_origin, pairs_b |-> origin_pairs,
      dim_var |-> dim_var, metrics |-> metric_codes, dim_time |-> dim_time,
      dim_a |-> dim_region, codes_a |-> Codes(region_pairs), pairs_a |-> region_pairs,
      pick |-> pick,
      query |-> <<Item(dim_region, Codes(region_pairs)), Item(dim_origin, Codes(origin_pairs)),
                  Item(dim_var, DictValues(metric_codes)), Item(dim_time, pick)>>]

\* row[metric_key] = tidy_number(lookup) for each metric, onto the row so far
RECURSIVE WithMetrics(_, _, _, _, _, _)
WithMetrics(row, plan, table, before, after, n) ==
  IF n = 0 THEN row
  ELSE DictSet(WithMetrics(row, plan, table, before, after, n - 1),
               plan.metrics[n][1],
               tidy_number(lookup_table_value(table.dim_codes, table,
                 before \o <<<<plan.dim_var, plan.metrics[n][2]>>>> \o after)))

k_region == <<"r","e","g","i","o","n">>
k_visitor_group == <<"v","i","s","i","t","o","r","_","g","r","o","u","p">>
k_visitor_group_label == k_visitor_group \o <<"_","l","a","b","e","l">>

\* a region record with the documented fields only
RegionRow_documented(period, region_label, origin_label) ==
  <<<<k_period, JStr(period)>>,
    <<k_region, JStr(region_label)>>,
    <<k_visitor_group, JStr(normalize_group_label(origin_label))>>>>

\* the record fetch_tourism_region starts each row with
RegionRow(period, region_label, origin_label) ==
  <<<<k_period, JStr(period)>>,
    <<k_region, JStr(region_label)>>,
    <<k_visitor_group, JStr(normalize_group_label(origin_label))>>,
    <<k_visitor_group_label, JStr(origin_label)>>>>

\* fetch_tourism_region after the request: one record per period, region and origin
TourismRegionResult(plan, cube) ==
  LET table == table_lookup(cube, <<plan.dim_time, plan.dim_a, plan.dim_b, plan.dim_var>>)
      nr == Len(plan.pairs_a)
      no == Len(plan.pairs_b)
      records ==
        [r \in 1..(Len(plan.pick) * nr * no) |->
           LET time_code == plan.pick[((r - 1) \div (nr * no)) + 1]
               region == plan.pairs_a[(((r - 1) \div no) % nr) + 1]
               origin == plan.pairs_b[((r - 1) % no) + 1]
           IN WithMetrics(
                RegionRow(normalize_ym(time_code), region[2], origin[2]),
                plan, Val(table),
                <<<<plan.dim_time, time_code>>, <<plan.dim_a, region[1]>>,
                  <<plan.dim_b, origin[1]>>>>, <<>>,
                Len(plan.metrics))]
      info == [periods |-> Len(plan.pick), regions |-> nr, metrics |-> DictKeys(plan.metrics)]
  IN IF IsNone(table)
     THEN [err |-> Some("PxError"), rows |-> <<>>, info |-> info]
     ELSE [err |-> None, rows |-> records, info |-> info]

\* fetch_tourism_country up to the request
TourismCountryPlan(meta, months) ==
  LET dim_time == OrElse(meta_find_var_code(meta, IsTimeVar(meta)), s_Viti_muaji)
      dim_var == OrElse(meta_find_var_code(meta, HasVariable(meta)), s_Variabla)
      dim_country == OrElse(meta_find_var_code(meta,
                       [v \in Variables(meta) |-> LET text == v.text  code == v.code IN \/ Contains(<<"c","o","u","n","t","r","y">>, Lower(text))
                                              \/ Contains(<<"s","h","t","e","t","e","t">>, Lower(text))]),
                     <<"S","h","t","e","t","e","t">>)
      metric_codes == MetricCodes(meta_value_map(meta, dim_var))
      country_pairs == meta_value_map(meta, dim_country)
      pick == Pick(meta_time_codes(meta, dim_time), months)
  IN [err |-> None, skipped |-> FALSE, dim_b |-> <<>>, pairs_b |-> <<>>,
      dim_var |-> dim_var, metrics |-> metric_codes, dim_time |-> dim_time,
      dim_a |-> dim_country, codes_a |-> Codes(country_pairs), pairs_a |-> country_pairs,
      pick |-> pick,
      query |-> <<Item(dim_var, DictValues(metric_codes)), Item(dim_country, Codes(country_pairs)),
                  Item(dim_time, pick)>>]

\* fetch_tourism_country after the request: one record per period and country
TourismCountryResult(plan, cube) ==
  LET table == table_lookup(cube, <<plan.dim_time, plan.dim_var, plan.dim_a>>)
      nc == Len(plan.pairs_a)
      records ==
        [r \in 1..(Len(plan.pick) * nc) |->
           LET time_code == plan.pick[((r - 1) \div nc) + 1]
               country == plan.pairs_a[((r - 1) % nc) + 1]
           IN WithMetrics(
                <<<<k_period, JStr(normalize_ym(time_code))>>,
                  <<<<"c","o","u","n","t","r","y">>, JStr(country[2])>>>>,
                plan, Val(table),
                <<<<plan.dim_time, time_code>>>>, <<<<plan.dim_a, country[1]>>>>,
                Len(plan.metrics))]
      info == [periods |-> Len(plan.pick), countries |-> nc, metrics |-> DictKeys(plan.metrics)]
  IN IF IsNone(table)
     THEN [err |-> Some("PxError"), rows |-> <<>>, info |-> info]
     ELSE [err |-> None, rows |-> records, info |-> info]

\* ---- the PxWeb server --------------------------------------------------------
\* What the API answers.  A table holds MaxTime months, listed newest first and
\* flagged time.  A "bare" meta lists the time variable only.  A data response
\* is built from the query: one cell per combination of the selected codes.

MaxTime == 2

\* the k-th month, counted from January 2024
MonthCode(k) ==
  <<"2", "0", "2", Digits[5 + ((k - 1) \div 12)], "M">>
    \o (IF ((k - 1) % 12) + 1 >= 10 THEN <<"1">> ELSE <<>>)
    \o <<Digits[1 + ((((k - 1) % 12) + 1) % 10)]>>

TimeVar(n) ==
  [code |-> s_Viti_muaji,
   values |-> [i \in 1..n |-> MonthCode(n + 1 - i)],
   valueTexts |-> [i \in 1..n |-> MonthCode(n + 1 - i)],
   time |-> TRUE, text |-> <<"Y","e","a","r","/","m","o","n","t","h">>]

Var(code, text, values, valueTexts) ==
  [code |-> code, values |-> values, valueTexts |-> valueTexts, time |-> FALSE, text |-> text]

t_Variables == <<"V","a","r","i","a","b","l","e","s">>

\* the partner dimension: Albania, a label with a trailing space, and a label
\* that reads "All"
PartnerVar ==
  Var(<<"P","a","r","t","n","e","r","C">>, <<"P","a","r","t","n","e","r">>,
      <<<<"A","L">>, <<"L","A">>, <<"D","E">>>>,
      <<<<"A","l","b","a","n","i","a">>, <<"L"," ">>, <<"A","l","l">>>>)

MetricVar ==
  Var(s_Variabla, t_Variables, <<<<"0">>, <<"1">>>>,
      <<<<"V","i","s","i","t","o","r","s">>, <<"N","i","g","h","t","s">>>>)

\* the variables of table t other than time
TableVars(t) ==
  CASE t = "trade_monthly" ->
         <<Var(s_Variabla, t_Variables, <<<<"1">>, <<"2">>>>,
               <<<<"E","x","p","o","r","t","s"," ","(","F","O","B",")">>,
                 <<"I","m","p","o","r","t","s"," ","(","C","I","F",")">>>>)>>
    [] t = "energy_monthly" ->
         <<Var(<<"M","W","H">>, <<"M","W","H">>, <<<<"0">>, <<"1">>>>,
               <<<<"I","m","p","o","r","t">>,
                 <<"G","r","o","s","s"," ","p","r","o","d","u","c","t","i","o","n">>>>)>>
    [] t \in FUEL_SPECS ->
         <<Var(s_Variabla, t_Variables, <<<<"0">>, <<"1">>>>,
               <<<<"P","r","o","d","u","c","t","i","o","n">>, <<"I","m","p","o","r","t">>>>)>>
    [] t = "tourism_region" ->
         <<Var(<<"R","a","j","o","n","e","t">>, <<"R","e","g","i","o","n">>, <<<<"0">>>>,
               <<<<"P","e","j","a">>>>),
           Var(<<"V","e","n","d","o","r","/","j","a","s","h","t","e","m">>,
               <<"L","o","c","a","l","/","e","x","t","e","r","n","a","l">>, <<<<"0">>, <<"1">>>>,
               <<<<"L","o","c","a","l">>, <<"E","x","t","e","r","n","a","l">>>>),
           MetricVar>>
    [] t = "tourism_country" ->
         <<MetricVar,
           Var(<<"S","h","t","e","t","e","t">>, <<"C","o","u","n","t","r","y">>, <<<<"0">>>>,
               <<<<"A","l","b","a","n","i","a">>>>)>>
    [] t = "imports_by_partner" -> <<PartnerVar>>

\* the GET meta of table t in the given variant
MetaOf(t, variant, n) ==
  IF variant = "bare" THEN [variables |-> <<TimeVar(n)>>]
  ELSE [variables |-> TableVars(t) \o <<TimeVar(n)>>]

\* the value the server holds at the p-th cell of a response
CellValue(p) ==
  IF p % 3 = 0 THEN JStr(<<".", ".">>)
  ELSE IF p % 3 = 1 THEN JInt(p)
  ELSE JStr(<<Digits[(p % 10) + 1], ".", "5">>)

Sizes(query) == [i \in DOMAIN query |-> Len(query[i].values)]

RECURSIVE Product(_)
Product(sizes) == IF sizes = <<>> THEN 1 ELSE Head(sizes) * Product(Tail(sizes))

\* the codes of the r-th cell (0-based, row-major over the query's dimensions)
KeyAt(query, r) ==
  LET st == Strides(Sizes(query))
  IN [i \in DOMAIN query |-> query[i].values[((r \div st[i]) % Len(query[i].values)) + 1]]

NoCube ==
  [value |-> <<>>, data |-> <<>>, columns |-> <<>>, has_value |-> FALSE,
   has_dimension |-> FALSE, id |-> <<>>, index |-> <<>>, size |-> <<>>]

\* the value the server holds for the cell with these codes: CellValue at the
\* cell's place in the row-major order of the query
ServerValue(query, key) ==
  CellValue(1 + Pos([i \in DOMAIN query |->
                       (CHOOSE k \in DOMAIN query[i].values : query[i].values[k] = key[i]) - 1],
                    Strides(Sizes(query))))

\* the data response to a query: format "table" (columns and keyed rows), "rows"
\* (keyed rows without the columns member), "jsonstat" (value list and
\* dimension) or "empty"; "table_desc" and "jsonstat_desc" list the codes of
\* every dimension in the reverse of the order requested; body.n cells when it
\* is not -1, the cells beyond the query's own keyed by "?"
ServerCube(body, query) ==
  LET format == body.fmt
      listed == IF format \in {"table_desc", "jsonstat_desc"}
                THEN [i \in DOMAIN query |-> [query[i] EXCEPT !.values = Reversed(@)]]
                ELSE query
      full == Product(Sizes(query))
      n == IF body.n < 0 THEN full ELSE body.n
      rows == [r \in 1..n |->
                 [key |-> IF r <= full THEN KeyAt(listed, r - 1)
                          ELSE [i \in DOMAIN query |-> <<"?">>],
                  has |-> "values",
                  values |-> <<IF r <= full THEN ServerValue(query, KeyAt(listed, r - 1))
                               ELSE CellValue(r)>>,
                  value |-> JNull]]
  IN IF format \in {"table", "table_desc"}
     THEN [NoCube EXCEPT
             !.columns = [i \in DOMAIN query |-> [code |-> query[i].code, type |-> "d"]]
                           \o <<[code |-> <<"v","a","l","u","e">>, type |-> "c"]>>,
             !.data = rows]
     ELSE IF format = "rows"
     THEN [NoCube EXCEPT !.data = rows]
     ELSE IF format \in {"jsonstat", "jsonstat_desc"}
     THEN [NoCube EXCEPT
             !.has_value = TRUE, !.has_dimension = TRUE,
             !.value = [r \in 1..n |-> rows[r].values[1]],
             !.id = [i \in DOMAIN query |-> query[i].code],
             !.size = Sizes(query),
             !.index = [d \in {query[i].code : i \in DOMAIN query} |->
                          LET q == listed[CHOOSE i \in DOMAIN query : query[i].code = d]
                          IN [c \in Range(q.values) |->
                                (CHOOSE k \in DOMAIN q.values : q.values[k] = c) - 1]]]
     ELSE NoCube

GetResponses ==
  {Resp(200, Body("full", -1)), Resp(200, Body("bare", -1)), Resp(200, Body("notjson", -1)),
   Resp(404, NoBody), NetErr}

PostResponses ==
  {Resp(200, Body("table", -1)), Resp(200, Body("jsonstat", -1)), Resp(200, Body("empty", -1)),
   Resp(200, Body("notjson", -1)), Resp(404, NoBody), Resp(429, NoBody), NetErr}

\* ---- one run of the script ---------------------------------------------------

VARIABLES
  args,        \* the parsed command line: all, months, partners, no_partners
  srv_months,  \* how many months the server's tables hold
  months,      \* main's months
  partners,    \* main's partners
  pc,          \* "start", "get", "post", "manifest", "done"
  cur,         \* index in TableOrder of the table being fetched
  call,        \* the px_get_meta / px_post_data call of the current fetch
  plan,        \* the current fetcher's locals between its two requests
  status,      \* per table: "untried", "ok", "skipped", "failed"
  files,       \* per file name: None (untouched by this run), or the rows written in it
  info,        \* main's locals holding what the fetchers returned
  logged,      \* tables whose failure main's except clauses printed
  escaped,     \* the error that left main: "", "PxError" or "Exception"
  manifest,    \* None, or the manifest written to kas_sources.json
  exit_code,   \* -1 while running, then the process exit status
  input,       \* None in a run; the argument of a helper that is called on its own
  output       \* None, or what that helper returned

run_vars ==
  <<args, srv_months, months, partners, pc, cur, call, plan, status, files, info,
    logged, escaped, manifest, exit_code>>

vars == <<run_vars, input, output>>

FileNames == {OutName(t) : t \in Tables}

NoPlan ==
  [err |-> None, dim_time |-> <<>>, dim_var |-> <<>>, pick |-> <<>>, skipped |-> FALSE,
   dim_b |-> <<>>, pairs_b |-> <<>>, metrics |-> <<>>, dim_a |-> <<>>, codes_a |-> <<>>,
   pairs_a |-> <<>>, query |-> <<>>]

NoInfo ==
  [trade_info |-> None, energy_info |-> None, fuel_infos |-> <<>>,
   tourism_region_info |-> None, tourism_country_info |-> None, partner_info |-> None]

InitWith(argset, monthset) ==
  /\ args \in argset
  /\ srv_months \in monthset
  /\ months = None
  /\ partners = None
  /\ pc = "start"
  /\ cur = 0
  /\ call = NoCall
  /\ plan = NoPlan
  /\ status = [t \in Tables |-> "untried"]
  /\ files = [f \in FileNames |-> None]
  /\ info = NoInfo
  /\ logged = {}
  /\ escaped = ""
  /\ manifest = None
  /\ exit_code = -1
  /\ input = None
  /\ output = None

\* a main whose jet fuel fetch is outside the try as well
Guarded_jet_outside(t) == t \notin {"trade_monthly", "energy_monthly", "fuel_jet"}

\* handlers that exit with status 1 whatever the error
ExitCode_always_one(kind) == 1

\* the try/except guards of main: trade and energy are fetched outside any try
Guarded(t) == t \notin {"trade_monthly", "energy_monthly"}

\* the handlers under __main__: the exit status for an error that left main
ExitCode(kind) == IF kind = "PxError" THEN 2 ELSE 1

\* main calls fetch_imports_by_partner only when partners is not None
Wanted(i, ps) == TableOrder[i] # "imports_by_partner" \/ ~IsNone(ps)

\* control moves to the fetch after table cur, or to the manifest
Advance ==
  IF cur + 1 <= Len(TableOrder) /\ Wanted(cur + 1, partners)
  THEN /\ pc' = "get"
       /\ cur' = cur + 1
       /\ call' = NewCall("get", TableOrder[cur + 1])
  ELSE /\ pc' = "manifest"
       /\ cur' = cur
       /\ call' = call

\* the fetch of table t raises an error of the given kind
Raise(t, kind) ==
  /\ status' = [status EXCEPT ![t] = "failed"]
  /\ plan' = NoPlan
  /\ IF Guarded(t)
     THEN /\ logged' = logged \cup {t}
          /\ Advance
          /\ UNCHANGED <<escaped, exit_code>>
     ELSE /\ escaped' = kind
          /\ exit_code' = ExitCode(kind)
          /\ pc' = "done"
          /\ UNCHANGED <<logged, cur, call>>

\* main, from parse_args to the first fetch
Start ==
  /\ pc = "start"
  /\ months' = MonthsOf(args)
  /\ partners' = PartnersOf(args)
  /\ pc' = "get"
  /\ cur' = 1
  /\ call' = NewCall("get", TableOrder[1])
  /\ UNCHANGED <<input, output, args, srv_months, plan, status, files, info, logged, escaped, manifest, exit_code>>

\* px_get_meta sends its next GET and reads the response
GetRequest(responses) ==
  /\ pc = "get"
  /\ call.outcome = "pending"
  /\ \E r \in responses : call' = px_get_meta(call, r)
  /\ UNCHANGED <<input, output, args, srv_months, months, partners, pc, cur, plan, status, files, info,
                 logged, escaped, manifest, exit_code>>

\* px_post_data sends its next POST and reads the response
PostRequest(responses) ==
  /\ pc = "post"
  /\ call.outcome = "pending"
  /\ \E r \in responses : call' = px_post_data(call, r)
  /\ UNCHANGED <<input, output, args, srv_months, months, partners, pc, cur, plan, status, files, info,
                 logged, escaped, manifest, exit_code>>

\* the error of a px call leaves the fetcher and reaches main
CallFails ==
  /\ pc \in {"get", "post"}
  /\ call.outcome \in {"PxError", "exception"}
  /\ Raise(TableOrder[cur], IF call.outcome = "PxError" THEN "PxError" ELSE "Exception")
  /\ UNCHANGED <<input, output, args, srv_months, months, partners, files, info, manifest>>

PlanOf(t, meta, ms, ps) ==
  CASE t = "trade_monthly" -> TradePlan(meta, ms)
    [] t = "energy_monthly" -> EnergyPlan(meta, ms)
    [] t \in FUEL_SPECS -> FuelPlan(meta, ms)
    [] t = "tourism_region" -> TourismRegionPlan(meta, ms)
    [] t = "tourism_country" -> TourismCountryPlan(meta, ms)
    [] t = "imports_by_partner" -> PartnerPlan(meta, ms, Val(ps))

ResultOf(t, pl, cube) ==
  CASE t = "trade_monthly" -> TradeResult(pl, cube)
    [] t = "energy_monthly" -> EnergyResult(pl, cube)
    [] t \in FUEL_SPECS -> FuelResult(pl, cube)
    [] t = "tourism_region" -> TourismRegionResult(pl, cube)
    [] t = "tourism_country" -> TourismCountryResult(pl, cube)
    [] t = "imports_by_partner" -> PartnerResult(pl, cube)

\* main keeps what the fetcher of table t returned
StoreInfo(inf, t, v) ==
  CASE t = "trade_monthly" -> [inf EXCEPT !.trade_info = Some(v)]
    [] t = "energy_monthly" -> [inf EXCEPT !.energy_info = Some(v)]
    [] t \in FUEL_SPECS -> [inf EXCEPT !.fuel_infos = DictSet(@, t, v)]
    [] t = "tourism_region" -> [inf EXCEPT !.tourism_region_info = Some(v)]
    [] t = "tourism_country" -> [inf EXCEPT !.tourism_country_info = Some(v)]
    [] t = "imports_by_partner" -> [inf EXCEPT !.partner_info = Some(v)]

\* the fetcher, between the meta it got and the data request it sends
BuildQuery ==
  /\ pc = "get"
  /\ call.outcome = "return"
  /\ LET t == TableOrder[cur]
         pl == PlanOf(t, MetaOf(t, call.ret.fmt, srv_months), months, partners)
     IN IF ~IsNone(pl.err)
        THEN /\ Raise(t, Val(pl.err))
             /\ UNCHANGED info
        ELSE IF pl.skipped
        THEN /\ status' = [status EXCEPT ![t] = "skipped"]
             /\ info' = StoreInfo(info, t, [skipped |-> TRUE])
             /\ plan' = NoPlan
             /\ Advance
             /\ UNCHANGED <<logged, escaped, exit_code>>
        ELSE /\ plan' = pl
             /\ pc' = "post"
             /\ call' = NewCall("post", t)
             /\ UNCHANGED <<cur, status, info, logged, escaped, exit_code>>
  /\ UNCHANGED <<input, output, args, srv_months, months, partners, files, manifest>>

\* write_json: the file holds the data
write_json(fs, name, data) == [fs EXCEPT ![name] = Some(data)]

\* a fetcher that writes what it has before it checks the response
WriteOutput_write_first ==
  /\ pc = "post"
  /\ call.outcome = "return"
  /\ LET t == TableOrder[cur]
         res == ResultOf(t, plan, ServerCube(call.ret, plan.query))
     IN /\ files' = write_json(files, OutName(t), res.rows)
        /\ IF ~IsNone(res.err)
           THEN /\ Raise(t, Val(res.err))
                /\ UNCHANGED info
           ELSE /\ info' = StoreInfo(info, t, res.info)
                /\ status' = [status EXCEPT ![t] = "ok"]
                /\ plan' = NoPlan
                /\ Advance
                /\ UNCHANGED <<logged, escaped, exit_code>>
  /\ UNCHANGED <<input, output, args, srv_months, months, partners, manifest>>

\* the fetcher, from the data it got to its return: reshape, write, return
WriteOutput ==
  /\ pc = "post"
  /\ call.outcome = "return"
  /\ LET t == TableOrder[cur]
         res == ResultOf(t, plan, ServerCube(call.ret, plan.query))
     IN IF ~IsNone(res.err)
        THEN /\ Raise(t, Val(res.err))
             /\ UNCHANGED <<files, info>>
        ELSE /\ files' = write_json(files, OutName(t), res.rows)
             /\ info' = StoreInfo(info, t, res.info)
             /\ status' = [status EXCEPT ![t] = "ok"]
             /\ plan' = NoPlan
             /\ Advance
             /\ UNCHANGED <<logged, escaped, exit_code>>
  /\ UNCHANGED <<input, output, args, srv_months, months, partners, manifest>>

\* `x if x else None` for a dict held as a sequence of items
OrNone(d) == IF d = <<>> THEN None ELSE Some(d)

\* a manifest whose fuel_monthly is the dict even when it is empty
Manifest_fuel_never_null(inf, ps) ==
  LET tourism_manifest ==
        (IF ~IsNone(inf.tourism_region_info)
         THEN <<<<"region", Val(inf.tourism_region_info)>>>> ELSE <<>>)
        \o (IF ~IsNone(inf.tourism_country_info)
            THEN <<<<"country", Val(inf.tourism_country_info)>>>> ELSE <<>>)
  IN [trade_monthly |-> [table |-> "08_qarkullimi.px", periods |-> Val(inf.trade_info).periods],
      energy_monthly |-> [table |-> "tab01.px", periods |-> Val(inf.energy_info).periods],
      fuel_monthly |-> Some(inf.fuel_infos),
      tourism_monthly |-> OrNone(tourism_manifest),
      imports_by_partner |->
        IF ~IsNone(ps)
        THEN Some([table |-> "07_imp_country.px", info |-> inf.partner_info])
        ELSE None]

\* the manifest main builds from what the fetchers returned
Manifest(inf, ps) ==
  LET tourism_manifest ==
        (IF ~IsNone(inf.tourism_region_info)
         THEN <<<<"region", Val(inf.tourism_region_info)>>>> ELSE <<>>)
        \o (IF ~IsNone(inf.tourism_country_info)
            THEN <<<<"country", Val(inf.tourism_country_info)>>>> ELSE <<>>)
  IN [trade_monthly |-> [table |-> "08_qarkullimi.px", periods |-> Val(inf.trade_info).periods],
      energy_monthly |-> [table |-> "tab01.px", periods |-> Val(inf.energy_info).periods],
      fuel_monthly |-> OrNone(inf.fuel_infos),
      tourism_monthly |-> OrNone(tourism_manifest),
      imports_by_partner |->
        IF ~IsNone(ps)
        THEN Some([table |-> "07_imp_country.px", info |-> inf.partner_info])
        ELSE None]

\* main writes kas_sources.json and returns; the process exits with status 0
WriteManifest ==
  /\ pc = "manifest"
  /\ manifest' = Some(Manifest(info, partners))
  /\ pc' = "done"
  /\ exit_code' = 0
  /\ UNCHANGED <<input, output, args, srv_months, months, partners, cur, call, plan, status, files, info,
                 logged, escaped>>

\* command lines of the run specification
RunArgs ==
  {[months |-> m, all |-> a, partners |-> p, no_partners |-> n] :
     a \in {FALSE}, m \in {Some(1)},
     p \in {None, Some(<<"d","e">>), Some(<<"x">>)}, n \in BOOLEAN}

Init == InitWith(RunArgs, {MaxTime})

Next ==
  \/ Start
  \/ GetRequest(GetResponses)
  \/ BuildQuery
  \/ PostRequest(PostResponses)
  \/ CallFails
  \/ WriteOutput
  \/ WriteManifest

Spec == Init /\ [][Next]_vars

\* ---- claims about one run (specification Spec) -------------------------------

GuardedTables ==
  {"fuel_gasoline", "fuel_diesel", "fuel_lng", "fuel_jet", "tourism_region",
   "tourism_country", "imports_by_partner"}

IndexOf(t) == CHOOSE i \in DOMAIN TableOrder : TableOrder[i] = t

\* C1 as claimed: whichever table's fetch raises, trade and energy included,
\* the error is caught and logged and the run is not ended by it.
C1_EveryFetchGuarded ==
  \A t \in Tables : status[t] = "failed" => (t \in logged /\ escaped = "" /\ pc # "done")

\* C1 amended: when the fetch of a fuel table, of tourism region, of tourism
\* country or of imports by partner raises, main logs it and goes on to the next
\* table (to the manifest after the last one); when the fetch of trade or of
\* energy raises, nothing is logged by a guard and the run ends with a non-zero
\* exit status.
C1_GuardedFetchContinues ==
  [][\A t \in Tables :
       (status[t] # "failed" /\ status'[t] = "failed") =>
         IF t \in GuardedTables
         THEN /\ t \in logged'
              /\ escaped' = "" /\ exit_code' = -1
              /\ \/ pc' = "get" /\ cur' = IndexOf(t) + 1 /\ call'.outcome = "pending"
                 \/ /\ pc' = "manifest"
                    /\ \/ t = "imports_by_partner"
                       \/ t = "tourism_country" /\ IsNone(partners)
         ELSE /\ t \notin logged'
              /\ pc' = "done" /\ exit_code' \in {1, 2}
              /\ \A u \in Tables : IndexOf(u) > IndexOf(t) => status'[u] = "untried"]_vars

\* C1 witness: a guarded fetch failed, was logged, and a later table was written
C1_Witness ==
  \E t \in GuardedTables :
    /\ status[t] = "failed" /\ t \in logged
    /\ \E u \in Tables : IndexOf(u) > IndexOf(t) /\ status[u] = "ok"

\* C2: the exit status is 2 exactly for a PxError raised by the trade or energy
\* fetch, 1 exactly for any other exception raised there, and a run whose
\* errors all occurred inside the guards writes the manifest and exits with 0.
C2_ExitStatus ==
  /\ pc # "done" => exit_code = -1
  /\ pc = "done" =>
       LET outside == {t \in Tables \ GuardedTables : status[t] = "failed"}
       IN /\ exit_code \in {0, 1, 2}
          /\ exit_code # 0 <=> outside # {}
          /\ exit_code = 2 <=> escaped = "PxError"
          /\ exit_code = 1 <=> escaped = "Exception"
          /\ outside = {} => (~IsNone(manifest) /\ exit_code = 0)
          /\ outside # {} => IsNone(manifest)

\* C2 witness: a finished run with failures inside the guards only
C2_Witness ==
  /\ pc = "done" /\ exit_code = 0 /\ ~IsNone(manifest)
  /\ \E t \in GuardedTables : status[t] = "failed"

NonOk(e) == ~e.neterr /\ e.status >= 400

\* C3: a px_get_meta or px_post_data call requests the bases in the listed
\* order; it goes to the second base only after a non-OK response of the first;
\* it returns the body of the first OK response, which is the last request it
\* made; it raises PxError only after a non-OK response of every base, with the
\* last of these failures as its message.
C3_BasesInOrder ==
  LET L == call.log
  IN /\ Len(L) <= Len(API_BASES)
     /\ \A i \in DOMAIN L : L[i].base = i
     /\ \A i \in DOMAIN L : i < Len(L) => NonOk(L[i])
     /\ call.outcome = "return" =>
          /\ L # <<>>
          /\ ~L[Len(L)].neterr /\ L[Len(L)].status < 400
          /\ call.ret = L[Len(L)].body
     /\ call.outcome = "PxError" =>
          /\ Len(L) = Len(API_BASES)
          /\ \A i \in DOMAIN L : NonOk(L[i])
          /\ call.err = Some([verb |-> IF call.kind = "get" THEN "GET" ELSE "POST",
                              base |-> Len(L), status |-> L[Len(L)].status])
     /\ call.outcome = "pending" => \A i \in DOMAIN L : NonOk(L[i])

\* C3 witness: a data request answered by the second base after the first failed
C3_Witness ==
  /\ call.kind = "post" /\ call.outcome = "return"
  /\ Len(call.log) = 2 /\ call.log[1].status = 404

\* C4 as claimed: one px_post_data call sleeps at most once
C4_AtMostOneSleep == call.sleeps <= 1

\* C4 amended: within one px_post_data call no base is requested more than once,
\* and the call sleeps exactly once after each response with status 429 and at
\* no other time: at most once per base, so at most twice in a call.
\* px_get_meta never sleeps.
C4_SleepPer429 ==
  LET L == call.log
  IN /\ \A i, k \in DOMAIN L : i # k => L[i].base # L[k].base
     /\ \A i \in DOMAIN L : L[i].slept <=> (~L[i].neterr /\ L[i].status = 429)
     /\ call.sleeps = Cardinality({i \in DOMAIN L : L[i].slept})
     /\ call.sleeps <= Len(API_BASES)
     /\ call.kind = "get" => call.sleeps = 0

\* C4 witness: both bases answered 429 and the call slept after each
C4_Witness == call.kind = "post" /\ call.sleeps = 2 /\ call.outcome = "PxError"

Written(t) == ~IsNone(files[OutName(t)])

SectionKeys(section) == IF IsNone(section) THEN {} ELSE Range(DictKeys(Val(section)))

\* C5: in a written manifest, fuel_monthly has an entry for a fuel exactly when
\* that fuel's file was written in the run, tourism_monthly has the entry region
\* (country) exactly when the region (country) file was written, a section with
\* no entry is null, and the trade and energy entries give the number of records
\* in their files.
C5_ManifestMatchesFiles ==
  ~IsNone(manifest) =>
    LET m == Val(manifest)
    IN /\ \A f \in FUEL_SPECS : f \in SectionKeys(m.fuel_monthly) <=> Written(f)
       /\ IsNone(m.fuel_monthly) <=> \A f \in FUEL_SPECS : ~Written(f)
       /\ "region" \in SectionKeys(m.tourism_monthly) <=> Written("tourism_region")
       /\ "country" \in SectionKeys(m.tourism_monthly) <=> Written("tourism_country")
       /\ IsNone(m.tourism_monthly) <=>
            (~Written("tourism_region") /\ ~Written("tourism_country"))
       /\ SectionKeys(m.fuel_monthly) \subseteq FUEL_SPECS
       /\ SectionKeys(m.tourism_monthly) \subseteq {"region", "country"}
       /\ Written("trade_monthly") /\ Written("energy_monthly")
       /\ m.trade_monthly.periods = Len(Val(files[OutName("trade_monthly")]))
       /\ m.energy_monthly.periods = Len(Val(files[OutName("energy_monthly")]))

\* C5 witness: a manifest with some fuels missing and no tourism table
C5_Witness ==
  /\ ~IsNone(manifest)
  /\ SectionKeys(Val(manifest).fuel_monthly) = {"fuel_diesel", "fuel_jet"}
  /\ IsNone(Val(manifest).tourism_monthly)
  /\ Val(manifest).trade_monthly.periods > 0

\* C9: with --no-partners, whatever --partners says, the partner table is never
\* requested, its file is not written, the manifest's imports_by_partner is
\* null, and every other table has been attempted when the manifest is written.
C9_NoPartners ==
  args.no_partners =>
    /\ call.table # "imports_by_partner"
    /\ status["imports_by_partner"] = "untried"
    /\ ~Written("imports_by_partner")
    /\ IsNone(info.partner_info)
    /\ ~IsNone(manifest) =>
         /\ IsNone(Val(manifest).imports_by_partner)
         /\ \A t \in Tables \ {"imports_by_partner"} : status[t] # "untried"

\* C9 witness: --no-partners together with --partners, manifest written
C9_Witness ==
  /\ args.no_partners /\ ~IsNone(args.partners)
  /\ ~IsNone(manifest)
  /\ status["tourism_country"] = "ok"

\* ---- the selection of periods (specification SpecPick) ----------------------
\* Runs in which every request is answered: any --months between -MaxMonthsArg
\* and MaxMonthsArg or none, with and without --all, against tables of 1 to
\* MaxTime + 1 months and of one month more than the default.

MaxMonthsArg == 3

OkGet == {Resp(200, Body("full", -1))}

OkPost == {Resp(200, Body("table", -1))}

PickArgs ==
  {[months |-> m, all |-> a, partners |-> None, no_partners |-> FALSE] :
     a \in BOOLEAN, m \in {None} \cup {Some(n) : n \in (0 - MaxMonthsArg)..MaxMonthsArg}}

PickMonths == (1..(MaxTime + 1)) \cup {DefaultMonths + 1}

InitPick == InitWith(PickArgs, PickMonths)

NextOk ==
  \/ Start
  \/ GetRequest(OkGet)
  \/ BuildQuery
  \/ PostRequest(OkPost)
  \/ WriteOutput
  \/ WriteManifest

SpecPick == InitPick /\ [][NextOk]_vars

\* the time codes of a table of n months, oldest first
Chrono(n) == [k \in 1..n |-> MonthCode(k)]

\* the period YYYY-MM of the k-th month
YearMonth(k) ==
  LET mm == ((k - 1) % 12) + 1
  IN <<"2", "0", "2", Digits[5 + ((k - 1) \div 12)], "-",
       Digits[(mm \div 10) + 1], Digits[(mm % 10) + 1]>>

\* the last n elements of a sequence, all of them when it has fewer, none when
\* n is not positive
LastN(seq, n) ==
  IF n <= 0 THEN <<>>
  ELSE IF n >= Len(seq) THEN seq
  ELSE SubSeq(seq, Len(seq) - n + 1, Len(seq))

\* the sequence without its first n elements
DropFirst(seq, n) == IF n >= Len(seq) THEN <<>> ELSE SubSeq(seq, n + 1, Len(seq))

\* the period of one record of the file of table t
PeriodOf(t, row) ==
  IF t \in {"trade_monthly", "energy_monthly", "imports_by_partner"}
  THEN row.period
  ELSE DictGet(row, k_period).s

\* the periods the file of table t covers
PeriodsIn(t) ==
  LET rows == Val(files[OutName(t)]) IN {PeriodOf(t, rows[i]) : i \in DOMAIN rows}

\* the time codes the current fetcher puts in its request
RequestedTimes ==
  LET hit == {i \in DOMAIN plan.query : plan.query[i].code = plan.dim_time}
  IN IF hit = {} THEN <<>> ELSE plan.query[CHOOSE i \in hit : TRUE].values

C8_AllSelectsEverything ==
  args.all =>
    /\ IsNone(months) \/ pc = "start"
    /\ pc = "post" =>
         /\ plan.pick = Chrono(srv_months)
         /\ RequestedTimes = Chrono(srv_months)
    /\ \A t \in Tables : Written(t) => PeriodsIn(t) = {YearMonth(k) : k \in 1..srv_months}

\* C8 witness: --all with --months 1 against tables of 25 months; the last
\* fetcher requests all 25
C8_Witness ==
  /\ args.all /\ args.months = Some(1) /\ srv_months = DefaultMonths + 1
  /\ pc = "post" /\ TableOrder[cur] = "imports_by_partner"
  /\ Len(RequestedTimes) = DefaultMonths + 1
  /\ Cardinality(PeriodsIn("tourism_country")) = DefaultMonths + 1

\* ---- the selection of partners (specification SpecPartners) -----------------
\* Runs in which every request is answered, for every --partners string of at
\* most MaxArgLen characters over PartnerAlphabet, and for --partners omitted.

MaxArgLen == 4

PartnerAlphabet == {"a", "L", ",", " "}

PartnerArgs ==
  {[months |-> Some(1), all |-> FALSE, partners |-> p, no_partners |-> FALSE] :
     p \in {None} \cup
           {Some(str) : str \in UNION {[1..k -> PartnerAlphabet] : k \in 0..MaxArgLen}}}

InitPartners == InitWith(PartnerArgs, {1})

SpecPartners == InitPartners /\ [][NextOk]_vars

\* the <<code, label>> pairs of the partner dimension
PartnerPairs ==
  [i \in DOMAIN PartnerVar.values |-> <<PartnerVar.values[i], PartnerVar.valueTexts[i]>>]

\* the non-blank items of a comma-separated list
ListedItems(str) == SelectSeq(Split(str, ","), LAMBDA item : Strip(item) # <<>>)

\* the partner table is being requested
PartnerRequest == pc = "post" /\ TableOrder[cur] = "imports_by_partner"

\* the partner codes in the request
PartnerRequested ==
  LET hit == {i \in DOMAIN plan.query : plan.query[i].code = PartnerVar.code}
  IN IF hit = {} THEN <<>> ELSE plan.query[CHOOSE i \in hit : TRUE].values

\* C10 as claimed: a given list other than the single item ALL requests the
\* codes whose code or label equals a listed item, letter case and surrounding
\* whitespace ignored on both sides; the single item ALL, or no --partners,
\* requests every code.
C10_MatchIgnoringWhitespace ==
  LET items == IF IsNone(args.partners) THEN <<<<"A","L","L">>>>
               ELSE ListedItems(Val(args.partners))
      isAll == Len(items) = 1 /\ Upper(items[1]) = <<"A","L","L">>
      normal == {Upper(Strip(items[i])) : i \in DOMAIN items}
      expected == IF isAll THEN PartnerVar.values
                  ELSE Codes(SelectSeq(PartnerPairs,
                         LAMBDA pr : \/ Upper(Strip(pr[1])) \in normal
                                     \/ Upper(Strip(pr[2])) \in normal))
  IN /\ PartnerRequest => PartnerRequested = expected
     /\ status["imports_by_partner"] = "skipped" => expected = <<>>

\* C10 amended: blank items of the list are dropped.  When --partners is
\* omitted or empty, or its only item is ALL in any letter case with no
\* whitespace around it, every partner code of the metadata is requested.
\* Otherwise the codes requested are exactly those whose code or label,
\* upper-cased as the metadata gives it, equals a listed item stripped of
\* surrounding whitespace and upper-cased, in metadata order; when there is
\* none, no request is made and the fetch is skipped.
C10_PartnerSelection ==
  LET given == IF IsNone(args.partners) THEN <<>> ELSE Val(args.partners)
      items == IF given = <<>> THEN <<<<"A","L","L">>>> ELSE ListedItems(given)
      isAll == Len(items) = 1 /\ Upper(items[1]) = <<"A","L","L">>
      normal == {Upper(Strip(items[i])) : i \in DOMAIN items}
      expected == IF isAll THEN PartnerVar.values
                  ELSE Codes(SelectSeq(PartnerPairs,
                         LAMBDA pr : Upper(pr[1]) \in normal \/ Upper(pr[2]) \in normal))
  IN /\ PartnerRequest => (PartnerRequested = expected /\ expected # <<>>)
     /\ status["imports_by_partner"] = "skipped" => (expected = <<>> /\ ~isAll)
     /\ status["imports_by_partner"] \in {"ok", "failed"} => expected # <<>>
     /\ ~IsNone(manifest) => status["imports_by_partner"] # "untried"
     /\ Written("imports_by_partner") =>
          LET rows == Val(files[OutName("imports_by_partner")])
          IN Len(rows) = Len(expected) * srv_months

\* C10 witness: the list " aLL" is not the item ALL: it requests the one
\* partner whose label reads All
C10_Witness ==
  /\ args.partners = Some(<<" ", "a", "L", "L">>)
  /\ PartnerRequest
  /\ PartnerRequested = <<<<"D","E">>>>

\* ---- the trade series (specification SpecTrade) -----------------------------
\* The trade fetch alone, against data responses of every format carrying the
\* cells asked for or any number of cells from 0 to MaxCells.

MaxCells == 3

TradeArgs ==
  {[months |-> Some(1), all |-> a, partners |-> None, no_partners |-> TRUE] : a \in BOOLEAN}

TradeGet == {Resp(200, Body("full", -1)), Resp(200, Body("bare", -1))}

TradePost ==
  {Resp(200, Body(f, n)) : f \in {"table", "rows", "jsonstat"}, n \in (0 - 1)..MaxCells}
    \cup {Resp(200, Body("empty", -1))}

InitTrade == InitWith(TradeArgs, 1..MaxTime)

NextTrade ==
  \/ Start
  \/ cur = 1 /\ GetRequest(TradeGet)
  \/ cur = 1 /\ BuildQuery
  \/ cur = 1 /\ PostRequest(TradePost)
  \/ cur = 1 /\ WriteOutput

SpecTrade == InitTrade /\ [][NextTrade]_vars

\* the response holds no value for the i-th selected time code
NoValueFor(body, i) ==
  \/ body.fmt = "empty"
  \/ body.n >= 0 /\ i > body.n
  \/ CellValue(i) = JStr(<<".", ".">>)

\* C6: when fetch_trade_monthly returns, kas_imports_monthly.json holds exactly
\* one record per time code it requested, in the order requested, each with
\* exactly the fields period and imports_th_eur, imports_th_eur being null
\* whenever the response holds no value for that record, whatever the number of
\* cells in the response.
C6_OneRecordPerCode ==
  [][(cur = 1 /\ pc = "post" /\ call.outcome = "return") =>
       /\ status'["trade_monthly"] = "ok"
       /\ LET rows == Val(files'[OutName("trade_monthly")])
              sel == RequestedTimes
          IN /\ ~IsNone(files'[OutName("trade_monthly")])
             /\ Len(rows) = Len(sel)
             /\ \A i \in DOMAIN rows :
                  /\ DOMAIN rows[i] = {"period", "imports_th_eur"}
                  /\ \E k \in 1..srv_months : sel[i] = MonthCode(k) /\ rows[i].period = YearMonth(k)
                  /\ NoValueFor(call.ret, i) => rows[i].imports_th_eur = JNull]_vars

\* C6 witness: two codes selected, one value returned: two records, the second
\* with a null
C6_Witness ==
  /\ status["trade_monthly"] = "ok"
  /\ LET rows == Val(files[OutName("trade_monthly")])
     IN /\ Len(rows) = 2
        /\ rows[1].imports_th_eur # JNull
        /\ rows[2].imports_th_eur = JNull
        /\ rows[1].period = YearMonth(1) /\ rows[2].period = YearMonth(2)

\* ---- helpers called on their own ---------------------------------------------

\* no run is in progress: main's state stays as it is before main is entered
NoRun ==
  /\ args = [months |-> None, all |-> FALSE, partners |-> None, no_partners |-> FALSE]
  /\ srv_months = 0
  /\ months = None
  /\ partners = None
  /\ pc = "idle"
  /\ cur = 0
  /\ call = NoCall
  /\ plan = NoPlan
  /\ status = [t \in Tables |-> "untried"]
  /\ files = [f \in FileNames |-> None]
  /\ info = NoInfo
  /\ logged = {}
  /\ escaped = ""
  /\ manifest = None
  /\ exit_code = -1

\* ---- coerce_number on its own ------------------------------------------------

MaxStrLen == 3

CoerceAlphabet == {"1", "5", ".", "-", ",", " ", "nbsp", "n", "a"}

\* s.replace(" ", "").replace(",", "")
Cleaned(s) == SelectSeq(s, LAMBDA c : c # "," /\ c # "nbsp")

\* strings whose float() the model computes: at most one digit after the point
OneFractionDigit(s) ==
  LET c == Cleaned(s)
  IN ~\E i \in DOMAIN c : c[i] = "." /\ i + 2 <= Len(c) /\ IsDigit(c[i + 1]) /\ IsDigit(c[i + 2])

CoerceStrings ==
  {str \in UNION {[1..k -> CoerceAlphabet] : k \in 0..MaxStrLen} : OneFractionDigit(str)}
    \cup {<<"i","n","f">>, <<"-","I","n","f">>}

CoerceInputs ==
  {JNull} \cup {JInt(n) : n \in (0 - 1)..2} \cup {JFloat(t) : t \in {0 - 5, 0, 15, 20}}
    \cup {JStr(str) : str \in CoerceStrings}

InitCoerce == NoRun /\ input \in {<<value>> : value \in CoerceInputs} /\ output = None

Call_coerce_number ==
  /\ output = None
  /\ output' = Some(coerce_number(input[1]))
  /\ UNCHANGED <<run_vars, input>>

NextCoerce == Call_coerce_number

SpecCoerce == InitCoerce /\ [][NextCoerce]_vars

\* a decimal numeral: [sign] digits [. digits] with at least one digit, possibly
\* surrounded by blanks
IsNumeral(s) ==
  LET t == Strip(s)
      body == IF t # <<>> /\ t[1] \in {"+", "-"} THEN Tail(t) ELSE t
      nodot == SelectSeq(body, LAMBDA c : c # ".")
  IN /\ Len(body) - Len(nodot) <= 1
     /\ IsDigitStr(nodot)

\* the value of a numeral with at most one fraction digit, in tenths
NumeralValue(s) ==
  LET t == Strip(s)
      body == IF t[1] \in {"+", "-"} THEN Tail(t) ELSE t
      nodot == SelectSeq(body, LAMBDA c : c # ".")
      mag == IF body[Len(body)] = "." \/ nodot = body
             THEN 10 * DigitsValue(nodot) ELSE DigitsValue(nodot)
  IN IF t[1] = "-" THEN 0 - mag ELSE mag

\* C11: coerce_number returns None for None, for an empty or whitespace-only
\* string, for the markers '.', '..', '...' and '-', and for any string that is
\* not a number once commas and non-breaking spaces are removed; for every int
\* or float and every numeric string it returns that number.
C11_NumberOrNone ==
  output # None =>
    LET value == input[1]
        num == Val(output)
    IN IF value.t = "null" THEN num = None
       ELSE IF value.t = "int" THEN num = Some(JFloat(10 * value.n))
       ELSE IF value.t = "float" THEN num = Some(JFloat(value.n))
       ELSE IF IsNumeral(Cleaned(value.s))
       THEN num = Some(JFloat(NumeralValue(Cleaned(value.s))))
       ELSE num = None

\* C11: the same statement for every input but the strings that spell nan or an
\* infinity, which float() accepts although they are not numbers.
C11_ExceptNonFinite ==
  (output # None /\ (Val(output) # None => Val(Val(output)).t = "float")) => C11_NumberOrNone

\* float("nan") is returned where the marker of a missing value is expected
C11_Witness ==
  /\ input = <<JStr(<<"n","a","n">>)>>
  /\ output = Some(Some(JNaN))

\* ---- meta_time_codes on its own ----------------------------------------------

MaxCodes == 3

\* lists of distinct month codes, in any order
CodeLists ==
  {l \in UNION {[1..k -> {MonthCode(m) : m \in 1..MaxCodes}] : k \in 0..MaxCodes} :
     \A i, k \in DOMAIN l : i # k => l[i] # l[k]}

\* a variable named Viti/muaji with the given values and time flag
TimeVarOf(values, flag) ==
  [code |-> s_Viti_muaji, values |-> values, valueTexts |-> values, time |-> flag,
   text |-> <<"Y","e","a","r","/","m","o","n","t","h">>]

TimeMetas ==
  {[variables |-> pre \o <<TimeVarOf(l, flag)>>] :
     pre \in {<<>>, <<PartnerVar>>}, l \in CodeLists, flag \in BOOLEAN}

InitTimeCodes ==
  /\ NoRun
  /\ input \in {<<meta, time_code>> : meta \in TimeMetas, time_code \in {s_Viti_muaji, s_Variabla}}
  /\ output = None

Call_meta_time_codes ==
  /\ output = None
  /\ output' = Some(meta_time_codes(input[1], input[2]))
  /\ UNCHANGED <<run_vars, input>>

NextTimeCodes == Call_meta_time_codes

SpecTimeCodes == InitTimeCodes /\ [][NextTimeCodes]_vars

\* the month a code of the server stands for
MonthIndex(code) == CHOOSE m \in 1..MaxCodes : MonthCode(m) = code

OldestFirst(l) == \A i, k \in DOMAIN l : i < k => MonthIndex(l[i]) < MonthIndex(l[k])

\* C12: meta_time_codes returns the codes of the time variable oldest first,
\* whichever order the metadata lists them in, and the empty list when no
\* variable has the given code.
C12_Chronological ==
  output # None =>
    LET v == VarByCode(input[1], input[2])
        vals == Val(output)
    IN IF IsNone(v) THEN vals = <<>>
       ELSE Range(vals) = Range(Val(v).values) /\ Len(vals) = Len(Val(v).values)
            /\ OldestFirst(vals)

\* C12: what the function does instead: the listed order, reversed exactly when
\* the variable carries time = true.
C12_ReversedWhenFlagged ==
  output # None =>
    LET v == VarByCode(input[1], input[2])
        vals == Val(output)
    IN IF IsNone(v) THEN vals = <<>>
       ELSE IF Val(v).time THEN vals = Reversed(Val(v).values)
       ELSE vals = Val(v).values

\* a flagged variable listed oldest first comes back newest first
C12_Witness ==
  /\ output # None
  /\ input[2] = s_Viti_muaji
  /\ LET v == Val(VarByCode(input[1], input[2]))
     IN v.time /\ Len(v.values) = MaxCodes /\ OldestFirst(v.values)
        /\ ~OldestFirst(Val(output))

\* ---- normalize_ym on its own -------------------------------------------------

YmYears == {<<"2","0","2","5">>, <<"1","9","9","9">>}

OneDigit == {<<Digits[i]>> : i \in DOMAIN Digits}

TwoDigits == {<<Digits[i], Digits[k]>> : i, k \in DOMAIN Digits}

\* month codes of the shapes YYYYMm, YYYYMmm, YYYYMM and YYYY-MM
YmCodes ==
  {y \o <<"M">> \o m : y \in YmYears, m \in OneDigit \cup TwoDigits}
    \cup {y \o m : y \in YmYears, m \in TwoDigits}
    \cup {y \o <<"-">> \o m : y \in YmYears, m \in TwoDigits}

InitYm == NoRun /\ input \in {<<code>> : code \in YmCodes} /\ output = None

\* normalize_ym(code), then normalize_ym of its result
Call_normalize_ym ==
  /\ output = None
  /\ output' = <<normalize_ym(input[1])>>
  /\ UNCHANGED <<run_vars, input>>

Call_normalize_ym_again ==
  /\ Len(output) = 1
  /\ output' = output \o <<normalize_ym(output[1])>>
  /\ UNCHANGED <<run_vars, input>>

NextYm == Call_normalize_ym \/ Call_normalize_ym_again

SpecYm == InitYm /\ [][NextYm]_vars

\* the digits of the month in a code of one of the four shapes
MonthDigits(code) ==
  IF code[5] \in {"M", "-"} THEN SubSeq(code, 6, Len(code)) ELSE SubSeq(code, 5, 6)

\* C13: normalize_ym maps every month code of the shapes YYYYMm, YYYYMmm and
\* six-digit YYYYMM to YYYY-MM with a two-digit month, leaves a YYYY-MM code
\* unchanged, and is idempotent on these inputs.
C13_YearDashMonth ==
  /\ Len(output) >= 1 =>
       LET code == input[1]
           md == MonthDigits(code)
       IN /\ output[1] = SubSeq(code, 1, 4) \o <<"-">>
                           \o (IF Len(md) = 1 THEN <<"0">> \o md ELSE md)
          /\ Len(output[1]) = 7
          /\ code[5] = "-" => output[1] = code
  /\ Len(output) = 2 => output[2] = output[1]

C13_Witness ==
  /\ Len(output) = 2
  /\ input = << <<"2","0","2","5","M","8">> >>
  /\ output[2] = <<"2","0","2","5","-","0","8">>

\* ---- fetch_fuel_table on its own ---------------------------------------------

\* measure labels a fuel table may carry: the five balance categories, a label
\* that names two of them, and a label that names none
FuelLabels ==
  << <<"P","r","o","d","u","c","t","i","o","n">>,
     <<"I","m","p","o","r","t">>,
     <<"E","x","p","o","r","t">>,
     <<"S","t","o","c","k">>,
     <<"R","e","a","d","y"," ","f","o","r"," ","m","a","r","k","e","t">>,
     <<"S","t","o","c","k"," ","o","f"," ","i","m","p","o","r","t","s">>,
     <<"L","o","s","s","e","s">> >>

\* the labels at the chosen places, in the order of FuelLabels
LabelsAt(places) ==
  LET idx == SelectSeq([i \in DOMAIN FuelLabels |-> i], LAMBDA i : i \in places)
  IN [k \in DOMAIN idx |-> FuelLabels[idx[k]]]

\* the GET meta of a fuel table with these measure labels
FuelMeta(labels) ==
  [variables |->
     <<Var(s_Variabla, t_Variables, [i \in DOMAIN labels |-> <<Digits[i]>>], labels),
       TimeVar(MaxTime)>>]

InitFuel ==
  /\ NoRun
  /\ input \in {<<LabelsAt(places), m>> : places \in SUBSET DOMAIN FuelLabels,
                                          m \in {None, Some(1)}}
  /\ output = None

\* fetch_fuel_table against a server that answers both requests, when it does
\* not raise: the rows it hands to write_json
Call_fetch_fuel_table ==
  /\ output = None
  /\ LET fuel_plan == FuelPlan(FuelMeta(input[1]), input[2])
         cube == ServerCube(Body("table", -1), fuel_plan.query)
         result == FuelResult(fuel_plan, cube)
     IN /\ IsNone(fuel_plan.err)
        /\ IsNone(result.err)
        /\ output' = Some(result.rows)
  /\ UNCHANGED <<run_vars, input>>

NextFuel == Call_fetch_fuel_table

SpecFuel == InitFuel /\ [][NextFuel]_vars

FiveFields ==
  << <<"p","r","o","d","u","c","t","i","o","n">>,
     <<"i","m","p","o","r","t">>,
     <<"e","x","p","o","r","t">>,
     <<"s","t","o","c","k">>,
     <<"r","e","a","d","y","_","f","o","r","_","m","a","r","k","e","t">> >>

\* the field the documentation gives a label of FuelLabels: the category it
\* names, the import category for the label naming stock and import, and the
\* label in lower case for the label naming none
FieldFor(label) ==
  LET i == CHOOSE k \in DOMAIN FuelLabels : FuelLabels[k] = label
  IN IF i <= 5 THEN FiveFields[i]
     ELSE IF i = 6 THEN FiveFields[2]
     ELSE <<"l","o","s","s","e","s">>

\* C14: every record of a fuel file has the field period plus one field per
\* measure code, each named production, import, export, stock or
\* ready_for_market.
C14_OneFieldPerMeasure ==
  output # None =>
    \A i \in DOMAIN Val(output) :
      LET row == Val(output)[i]
      IN /\ Len(row) = 1 + Len(input[1])
         /\ Range(DictKeys(row)) \subseteq {k_period} \cup Range(FiveFields)

\* C14: every record of a fuel file has the field period plus, for each measure
\* code, the field its label is normalised to; measures normalised to the same
\* name share one field, so a record has one field per distinct name, and a
\* table whose measures are the five balance categories yields exactly the six
\* documented fields.
C14_FieldPerDistinctName ==
  output # None =>
    \A i \in DOMAIN Val(output) :
      LET row == Val(output)[i]
          names == {FieldFor(input[1][k]) : k \in DOMAIN input[1]}
      IN /\ Range(DictKeys(row)) = {k_period} \cup names
         /\ Len(row) = 1 + Cardinality(names)
         /\ row[1][1] = k_period
         /\ Range(input[1]) = {FuelLabels[k] : k \in 1..5} =>
              DictKeys(row) = <<k_period>> \o FiveFields

C14_Witness ==
  /\ output # None
  /\ Len(Val(output)) = MaxTime
  /\ input[1] = LabelsAt(1..5)
  /\ Len(Val(output)[1]) = 6

\* ---- fetch_tourism_region on its own -----------------------------------------

RegionLabels == << <<"P","e","j","a">>, <<"P","r","i","z","r","e","n">> >>

OriginLabels == << <<"L","o","c","a","l">>, <<"E","x","t","e","r","n","a","l">>, <<"T","o","t","a","l">> >>

MetricLabels ==
  << <<"V","i","s","i","t","o","r","s">>, <<"N","i","g","h","t","s">>,
     <<"A","r","r","i","v","a","l","s">> >>

\* the entries of l at the chosen places, in the order of l
Chosen(l, places) ==
  LET idx == SelectSeq([i \in DOMAIN l |-> i], LAMBDA i : i \in places)
  IN [k \in DOMAIN idx |-> l[idx[k]]]

CodesFor(labels) == [i \in DOMAIN labels |-> <<Digits[i]>>]

\* the GET meta of the region table with these regions, origins and metrics
RegionMeta(regions, origins, metrics) ==
  [variables |->
     <<Var(<<"R","a","j","o","n","e","t">>, <<"R","e","g","i","o","n">>, CodesFor(regions), regions),
       Var(<<"V","e","n","d","o","r","/","j","a","s","h","t","e","m">>,
           <<"L","o","c","a","l","/","e","x","t","e","r","n","a","l">>, CodesFor(origins), origins),
       Var(s_Variabla, t_Variables, CodesFor(metrics), metrics),
       TimeVar(MaxTime)>>]

InitRegion ==
  /\ NoRun
  /\ input \in {<<Chosen(RegionLabels, r), Chosen(OriginLabels, o), Chosen(MetricLabels, v), m>> :
                  r \in SUBSET DOMAIN RegionLabels, o \in SUBSET DOMAIN OriginLabels,
                  v \in SUBSET DOMAIN MetricLabels, m \in {None, Some(1)}}
  /\ output = None

\* fetch_tourism_region against a server that answers both requests, when it
\* does not raise: the records it hands to write_json
Call_fetch_tourism_region ==
  /\ output = None
  /\ LET region_plan == TourismRegionPlan(RegionMeta(input[1], input[2], input[3]), input[4])
         cube == ServerCube(Body("table", -1), region_plan.query)
         result == TourismRegionResult(region_plan, cube)
     IN /\ IsNone(result.err)
        /\ output' = Some(result.rows)
  /\ UNCHANGED <<run_vars, input>>

NextRegion == Call_fetch_tourism_region

SpecRegion == InitRegion /\ [][NextRegion]_vars

k_visitors == <<"v","i","s","i","t","o","r","s">>
k_nights == <<"n","i","g","h","t","s">>

\* how many periods the call selects: all the server has, or the last one
SelectedPeriods == IF input[4] = None THEN MaxTime ELSE 1

\* the (period, region, origin label) of a record
Combination(row) == <<DictGet(row, k_period), DictGet(row, k_region), DictGet(row, k_visitor_group_label)>>

MaxDims == 3

MaxSize == 2

\* dimension names: the indicator or partner dimension, time, and others
d_ind == <<"M","W","H">>
DimNames == {d_ind, s_Viti_muaji, <<"U","n","i","t">>, <<"F","l","o","w">>}

\* cube["id"] and cube["size"]: distinct dimensions in any order, each with a size
StatShapes ==
  {<<order, sizes>> :
     order \in {o \in UNION {[1..k -> DimNames] : k \in 0..MaxDims} :
                  \A i, k \in DOMAIN o : i # k => o[i] # o[k]},
     sizes \in UNION {[1..k -> 1..MaxSize] : k \in 0..MaxDims}}

InitStat ==
  /\ NoRun
  /\ input \in {sh \in StatShapes : Len(sh[1]) = Len(sh[2])}
  /\ output = None

\* the size of dimension d, 1 when the cube does not have it
SizeOf(d) ==
  IF \E k \in DOMAIN input[1] : input[1][k] = d
  THEN input[2][CHOOSE k \in DOMAIN input[1] : input[1][k] = d] ELSE 1

\* lines 431-433 and 523-525: the strides of the cube
Call_strides ==
  /\ output = None
  /\ output' = <<Strides(input[2])>>
  /\ UNCHANGED <<run_vars, input>>

\* lines 446-450 and 538-541: the coordinates of one cell and its position
Call_pos ==
  /\ Len(output) = 1
  /\ \E ord_a \in 0..(SizeOf(d_ind) - 1), ord_t \in 0..(SizeOf(s_Viti_muaji) - 1) :
       LET coords == Coords([id |-> input[1]], d_ind, ord_a, s_Viti_muaji, ord_t)
       IN output' = <<output[1], <<ord_a, ord_t>>, coords, Pos(coords, output[1])>>
  /\ UNCHANGED <<run_vars, input>>

NextStat == Call_strides \/ Call_pos

SpecStat == InitStat /\ [][NextStat]_vars

\* every coordinate vector within the sizes
AllCoords(sizes) ==
  {c \in [DOMAIN sizes -> 0..(MaxSize - 1)] : \A i \in DOMAIN sizes : c[i] < sizes[i]}

\* the row-major offset, computed from the first coordinate on
RECURSIVE RowMajor(_, _)
RowMajor(coords, sizes) ==
  IF coords = <<>> THEN 0
  ELSE RowMajor(SubSeq(coords, 1, Len(coords) - 1), SubSeq(sizes, 1, Len(sizes) - 1))
         * sizes[Len(sizes)] + coords[Len(coords)]

\* C16: strides[i] is the product of size[i+1..end] (1 for the last dimension);
\* for every coordinate vector within the sizes pos(coords) is the row-major
\* offset, lies in 0..product(size)-1 and differs for different vectors; and the
\* dimensions other than time and the indicator or partner dimension are read
\* at coordinate 0.
C16_RowMajorOffsets ==
  /\ Len(output) >= 1 =>
       LET sizes == input[2]
           strides == output[1]
           all == AllCoords(sizes)
       IN /\ Len(strides) = Len(sizes)
          /\ \A i \in DOMAIN sizes : strides[i] = Product(SubSeq(sizes, i + 1, Len(sizes)))
          /\ \A c \in all : /\ Pos(c, strides) = RowMajor(c, sizes)
                            /\ Pos(c, strides) \in 0..(Product(sizes) - 1)
          /\ Cardinality({Pos(c, strides) : c \in all}) = Cardinality(all)
  /\ Len(output) = 4 =>
       LET order == input[1]
           coords == output[3]
       IN /\ coords \in AllCoords(input[2])
          /\ \A k \in DOMAIN order :
               coords[k] = IF order[k] = d_ind THEN output[2][1]
                           ELSE IF order[k] = s_Viti_muaji THEN output[2][2] ELSE 0
          /\ output[4] = RowMajor(coords, input[2])

C16_Witness ==
  /\ Len(output) = 4
  /\ input[1] = <<d_ind, <<"U","n","i","t">>, s_Viti_muaji>>
  /\ input[2] = <<2, 2, 2>>
  /\ output[1] = <<4, 2, 1>>
  /\ output[2] = <<1, 1>>
  /\ output[4] = 5

\* ---- the order of one run (specification Spec) -------------------------------

ClaimedOrder ==
  <<"trade_monthly", "energy_monthly", "fuel_gasoline", "fuel_diesel", "fuel_lng",
    "fuel_jet", "tourism_region", "tourism_country", "imports_by_partner">>

PlaceOf(t) == CHOOSE i \in DOMAIN ClaimedOrder : ClaimedOrder[i] = t

\* while a table is being fetched, the tables before it are dealt with and the
\* tables from it on are untouched
InClaimedOrder ==
  pc \in {"get", "post"} =>
    /\ call.table = TableOrder[cur]
    /\ \A t \in Tables :
         IF PlaceOf(t) < PlaceOf(call.table)
         THEN status[t] # "untried"
         ELSE status[t] = "untried" /\ files[OutName(t)] = None

\* one step of a run keeps the order of requests and writes; with strict, the
\* manifest is written only when every table was attempted
OrderedStep(strict) ==
  \* one request at a time, each for the table being fetched
  /\ (call'.log # call.log /\ call'.log # <<>>) =>
       /\ Len(call'.log) = Len(call.log) + 1
       /\ call'.table = call.table /\ call'.kind = call.kind
       /\ call.outcome = "pending"
  \* a POST is prepared only after the GET of the same table returned
  /\ (call'.kind = "post" /\ call # call' /\ call.kind # "post") =>
       /\ call.kind = "get" /\ call.outcome = "return"
       /\ call'.table = call.table
  \* a file is written only after the POST of its table returned
  /\ files' # files =>
       /\ call.kind = "post" /\ call.outcome = "return"
       /\ \A f \in FileNames : f # OutName(call.table) => files'[f] = files[f]
       /\ manifest = None
  \* the manifest is written last
  /\ manifest' # manifest =>
       /\ manifest = None
       /\ pc' = "done"
       /\ \A t \in Tables :
            \/ status[t] # "untried"
            \/ ~strict /\ t = "imports_by_partner" /\ IsNone(partners)
  /\ manifest # None => files' = files /\ call' = call /\ manifest' = manifest

\* C17: the tables are processed strictly in the order trade, energy, gasoline,
\* diesel, lng, jet, tourism region, tourism country, imports by partner, one
\* HTTP request at a time; a POST is issued only after the GET of its table
\* succeeded and a file is written only after its POST succeeded;
\* kas_sources.json is written last, after every table has been attempted.
C17_EveryTableAttempted == []InClaimedOrder /\ [][OrderedStep(TRUE)]_vars

\* C17: the same, where kas_sources.json is written after every table has been
\* attempted except imports by partner in a run without partners (--no-partners),
\* which is never attempted.
C17_OrderedRun == []InClaimedOrder /\ [][OrderedStep(FALSE)]_vars

C17_Witness ==
  /\ manifest # None
  /\ status["imports_by_partner"] = "ok"
  /\ status["fuel_jet"] = "failed"
  /\ files[OutName("imports_by_partner")] # None
  /\ files[OutName("fuel_lng")] # None

\* ---- fetch_trade_monthly and the order of the response -----------------------

\* complete responses in every shape and listing order
OrderPost ==
  {Resp(200, Body(f, -1)) : f \in {"table", "table_desc", "rows", "jsonstat", "jsonstat_desc"}}

InitOrder == InitWith(TradeArgs, 0..(MaxTime + 1))

NextOrder ==
  \/ Start
  \/ cur = 1 /\ GetRequest(TradeGet)
  \/ cur = 1 /\ BuildQuery
  \/ cur = 1 /\ PostRequest(OrderPost)
  \/ cur = 1 /\ WriteOutput

SpecOrder == InitOrder /\ [][NextOrder]_vars

\* the trade fetch returns: every record written holds, for its period, the
\* value the server holds for that period
SamePeriodValues ==
  LET rows == Val(files'[OutName("trade_monthly")])
  IN /\ ~IsNone(files'[OutName("trade_monthly")])
     /\ Len(rows) = Len(plan.pick)
     /\ \A i \in DOMAIN rows :
          /\ rows[i].period = normalize_ym(plan.pick[i])
          /\ rows[i].imports_th_eur =
               tidy_number(coerce_number(ServerValue(plan.query, <<plan.codes_a[1], plan.pick[i]>>)))

\* C18: for every selected period the imports_th_eur written is the value the
\* response reports for that same period, for a JSON-stat value list and for a
\* keyed data table alike, whatever order the response lists its periods in.
C18_ValueOfSamePeriod ==
  [][(cur = 1 /\ pc = "post" /\ call.outcome = "return") => SamePeriodValues]_vars

\* C18: the same for the responses the code reads by key or in the order it
\* asked for: a keyed table with its columns, in any order, and a JSON-stat
\* value list in the order requested.
C18_KeyedOrAsRequested ==
  [][(cur = 1 /\ pc = "post" /\ call.outcome = "return"
        /\ call.ret.fmt \in {"table", "table_desc", "jsonstat"}) => SamePeriodValues]_vars

\* two periods written with each other's value
C18_Witness ==
  /\ status["trade_monthly"] = "ok"
  /\ LET rows == Val(files[OutName("trade_monthly")])
     IN /\ Len(rows) = 2
        /\ rows[1].period = YearMonth(1) /\ rows[2].period = YearMonth(2)
        /\ rows[1].imports_th_eur = tidy_number(coerce_number(CellValue(2)))
        /\ rows[2].imports_th_eur = tidy_number(coerce_number(CellValue(1)))
        /\ CellValue(1) # CellValue(2)

\* ---- failed fetches (specification Spec) -------------------------------------

\* a step that writes the file of table t is the step in which the fetch of t
\* returns to main
WriteThenReturn(t) ==
  files'[OutName(t)] # files[OutName(t)] =>
    /\ pc = "post" /\ call.table = t /\ call.outcome = "return"
    /\ status[t] = "untried" /\ status'[t] = "ok"
    /\ pc' = "manifest" \/ (pc' = "get" /\ cur' = cur + 1)

\* C19: a table fetch that raises an error writes nothing: its output file is
\* neither created nor modified in that run, because in every fetcher the
\* write is the last step before returning.
C19_FailedFetchWritesNothing ==
  /\ [](\A t \in Tables : status[t] = "failed" => files[OutName(t)] = None)
  /\ [][\A t \in Tables : WriteThenReturn(t)]_vars

\* a fetch failed on the response to its POST, between two fetches that wrote
C19_Witness ==
  /\ status["tourism_region"] = "failed"
  /\ files[OutName("tourism_region")] = None
  /\ files[OutName("fuel_jet")] # None
  /\ files[OutName("tourism_country")] # None
  /\ cur = 9 /\ pc = "post"

====
